---- MODULE Spec2Model ----
(***************************************************************************)
(* Session event log: the durable context event bus                        *)
(* (src/src/infra/context-event-bus.ts) and the per-session delivery queue *)
(* built on it (src/src/infra/system-events.ts).                           *)
(*                                                                         *)
(* The size constants of the source are scaled down so that trimming,      *)
(* compaction and eviction happen within a few operations; the source      *)
(* values are given next to each.  Their order is the source's:            *)
(* KEEP_EVENT_LINES < MAX_EVENTS_IN_MEMORY, DEFAULT_QUERY_LIMIT <          *)
(* MAX_EVENTS_IN_MEMORY.  A record's size on disk is counted in units of   *)
(* its text length.                                                        *)
(***************************************************************************)
EXTENDS Integers, Sequences, FiniteSets, TLC

VARIABLES
  file,       \* path -> the lines of the backing file (disk, survives restarts); the
              \* last line may be torn: cut short by a crash, with no newline behind it;
              \* and, under the path of a partition's temporary files, the temporary
              \* files that exist
  busByPath,  \* path -> in-memory partition state (context-event-bus.ts:45)
  queues,     \* session key -> SessionQueue, and whether the Map has the key
              \* (system-events.ts:30)
  now,        \* the clock Date.now() reads
  cursor,     \* the afterSeq of the cursor consumer (heartbeat loop)
  ret,        \* what the last call was given and what it returned or raised
  accepted,   \* history: path -> events returned with appended:true, in order
  seen,       \* history: events returned by Append or Query that are not in accepted
  delivered,  \* history: session -> entries returned by Drain, in order
  owed,       \* history: session -> accepted entries not yet returned by a Drain
  fresh,      \* history: session -> entries accepted by this process since the last Drain
  supplied,   \* history: session -> the idempotencyKey options of the Enqueue calls
              \* that returned
  peer        \* the module state (busByPath, queues) of a second process that runs
              \* on the same state directory

vars == <<file, busByPath, queues, now, cursor, ret, accepted, seen, delivered, owed,
          fresh, supplied, peer>>

----------------------------------------------------------------------------
\* Program constants (scaled; source value in the comment)

MAX_EVENTS_IN_MEMORY == 2
\* 8_000
MAX_EVENT_FILE_BYTES == 4
\* 6_000_000
KEEP_EVENT_LINES == 1
\* 5_000
MAX_EVENTS == 2
\* 20
DEFAULT_QUERY_LIMIT == 1
\* 200
MAX_QUERY_LIMIT == 2
\* 2_000

\* Bound of the model: the number of events constructed (clock readings)
MaxNow == 3

----------------------------------------------------------------------------
\* Inputs

Undefined == "undefined"

Sessions == {"agent:main:main", "discord:group:123"}

RawTexts == {"a", "bbbbb ", " "}

RawKeys == {"k1", "K1 ", Undefined}

\* the contextKey and source options producers pass
RawContextKeys == {Undefined, "ctx-a", "CTX-A ", "ctx-b", " "}

RawSources == {Undefined, "Cron "}

\* the sourceId and hash options producers pass
RawSourceIds == {Undefined, "msg-1", "msg-1 "}

RawHashes == {Undefined, "H1 "}

\* the SystemEventOptions (without sessionKey) built from the given option values;
\* metadata, which no function of the module reads, is left out
ProducerOptions(contextKeys, sources, sourceIds, hashes, idempotencyKeys) ==
  [contextKey : contextKeys, source : sources, sourceId : sourceIds, hash : hashes,
   idempotencyKey : idempotencyKeys]

\* the options of producers that pass neither sourceId nor hash
SystemEventOptions(contextKeys, sources, idempotencyKeys) ==
  ProducerOptions(contextKeys, sources, {Undefined}, {Undefined}, idempotencyKeys)

\* options that give an idempotency key at most
KeyOptions == SystemEventOptions({Undefined}, {Undefined}, RawKeys)

\* the session whose producers and consumers run
MainSession == "agent:main:main"

Producers == {MainSession}

\* the afterSeq values readers ask for
AfterSeqs == {0, 1}

\* String.prototype.trim on the strings of the model
trim(s) ==
  CASE s = "bbbbb " -> "bbbbb"
    [] s = " " -> ""
    [] s = "K1 " -> "K1"
    [] s = "CTX-A " -> "CTX-A"
    [] s = "Cron " -> "Cron"
    [] s = "agent:main:main " -> "agent:main:main"
    [] s = "msg-1 " -> "msg-1"
    [] s = "H1 " -> "H1"
    [] OTHER -> s

\* String.prototype.toLowerCase on the strings of the model
toLowerCase(s) ==
  CASE s = "K1" -> "k1"
    [] s = "CTX-A" -> "ctx-a"
    [] s = "Cron" -> "cron"
    [] s = "CRON" -> "cron"
    [] s = "H1" -> "h1"
    [] OTHER -> s

\* byte length of a text (the unit of file size)
TextBytes(t) ==
  CASE t = "a" -> 1
    [] t = "bbbbb" -> 5
    [] OTHER -> 1

\* crypto.createHash("sha1").update(text).digest("hex"): one digest per text
Sha1(text) == "sha1(" \o text \o ")"

----------------------------------------------------------------------------
\* Sequence helpers

Min(a, b) == IF a < b THEN a ELSE b

Max(a, b) == IF a > b THEN a ELSE b

\* Array.prototype.slice(start) for 0 <= start
SliceFrom(q, start) == SubSeq(q, start + 1, Len(q))

\* the last n elements of q
LastN(q, n) == SliceFrom(q, Max(0, Len(q) - n))

\* insert e behind every element whose seq is <= e.seq
RECURSIVE InsertBySeq(_, _)
InsertBySeq(sorted, e) ==
  IF sorted = <<>> THEN <<e>>
  ELSE IF sorted[Len(sorted)].seq <= e.seq THEN Append(sorted, e)
       ELSE Append(InsertBySeq(SubSeq(sorted, 1, Len(sorted) - 1), e), sorted[Len(sorted)])

\* events.sort((a, b) => a.seq - b.seq), a stable sort
RECURSIVE SortBySeq(_)
SortBySeq(q) ==
  IF q = <<>> THEN <<>>
  ELSE InsertBySeq(SortBySeq(SubSeq(q, 1, Len(q) - 1)), q[Len(q)])

\* the size of a line; the fragment a crash left counts as nothing
LineBytes(line) == IF line.kind = "torn" THEN 0 ELSE TextBytes(line.v.text)

RECURSIVE SumBytes(_)
SumBytes(lines) ==
  IF lines = <<>> THEN 0
  ELSE LineBytes(Head(lines)) + SumBytes(Tail(lines))

----------------------------------------------------------------------------
\* Durable event store (context-event-bus.ts)

resolveAgentIdFromSessionKey(sessionKey) ==
  IF sessionKey = "agent:ops:main" THEN "ops" ELSE "main"

resolveEventBusPath(sessionKey) ==
  resolveAgentIdFromSessionKey(sessionKey) \o "/context-events.jsonl"

Paths == {resolveEventBusPath(s) : s \in Sessions}

\* `${state.filePath}.${process.pid}.${random}.tmp`: the temporary files of a
\* partition, each under a name of its own
TmpPath(filePath) == filePath \o ".*.tmp"

TmpPaths == {TmpPath(p) : p \in Paths}

\* JSON.stringify(event) + "\n"
stringify(event) == [kind |-> "json", v |-> event]

\* fs.appendFileSync(filePath, JSON.stringify(event) + "\n"): the bytes go behind
\* the last byte of the file, so behind a torn line they continue that line, and
\* the line then reads as the fragment followed by the record
appendFileSync(lines, event) ==
  IF lines # <<>> /\ lines[Len(lines)].kind = "torn"
  THEN [lines EXCEPT ![Len(lines)] = [kind |-> "glued", v |-> event]]
  ELSE Append(lines, stringify(event))

\* the file after the process died inside appendFileSync with a part of the
\* record written
tornWrite(lines, event) ==
  IF lines # <<>> /\ lines[Len(lines)].kind = "torn" THEN lines
  ELSE Append(lines, [kind |-> "torn", v |-> event])

\* a line that holds an event record with every required field (JSON.parse
\* throws on a torn line and on a fragment followed by a record)
WellFormed(line) ==
  /\ line.kind = "json"
  /\ line.v.seq \in Int
  /\ line.v.ts \in Int
  /\ trim(line.v.sessionKey) # ""
  /\ trim(line.v.source) # ""
  /\ trim(line.v.sourceId) # ""
  /\ trim(line.v.hash) # ""
  /\ trim(line.v.idempotencyKey) # ""
  /\ trim(line.v.text) # ""

\* a read that gives up at the first line it cannot parse
parseContextEventUntilBad(lines) ==
  IF \E i \in 1..Len(lines) : ~WellFormed(lines[i])
  THEN [i \in 1..((CHOOSE j \in 1..Len(lines) :
                     /\ ~WellFormed(lines[j])
                     /\ \A k \in 1..(j - 1) : WellFormed(lines[k])) - 1) |-> lines[i].v]
  ELSE [i \in 1..Len(lines) |-> lines[i].v]

\* the events of the lines parseContextEvent accepts, in file order
parseContextEvent(lines) ==
  LET ok == SelectSeq(lines, WellFormed)
  IN [i \in 1..Len(ok) |-> ok[i].v]

pruneLoadedEvents(events) ==
  IF Len(events) <= MAX_EVENTS_IN_MEMORY THEN events
  ELSE SliceFrom(events, Len(events) - MAX_EVENTS_IN_MEMORY)

\* map.set(event.idempotencyKey, event) for each event in order: the last one wins
rebuildByKey(events) ==
  [k \in {events[i].idempotencyKey : i \in 1..Len(events)} |->
     events[CHOOSE i \in 1..Len(events) :
              /\ events[i].idempotencyKey = k
              /\ \A j \in (i + 1)..Len(events) : events[j].idempotencyKey # k]]

NotLoaded == [loaded |-> FALSE, events |-> <<>>, byKey |-> <<>>, nextSeq |-> 0]

\* resuming from the number of loaded events instead of the largest seq
nextSeqFromCount(events) == Len(events) + 1

\* (events[events.length - 1]?.seq ?? 0) + 1
nextSeqAfterLoad(events) ==
  (IF events = <<>> THEN 0 ELSE events[Len(events)].seq) + 1

\* the state loadBusState builds from the events it read (lines 126-132)
newBusState(events) ==
  [loaded |-> TRUE,
   events |-> events,
   byKey |-> rebuildByKey(events),
   nextSeq |-> nextSeqAfterLoad(events)]

\* a load that reads the file on every call
loadBusStateNoCache(bus, fl, filePath) ==
  newBusState(pruneLoadedEvents(SortBySeq(parseContextEvent(fl[filePath]))))

\* the partition state loadBusState returns for filePath
loadBusState(bus, fl, filePath) ==
  IF bus[filePath].loaded THEN bus[filePath]
  ELSE newBusState(pruneLoadedEvents(SortBySeq(parseContextEvent(fl[filePath]))))

\* outcomes of the file system calls of one Append: all succeed, or the named one
\* raises (statSync raises only when the file vanished under the single writer,
\* which no run of the model does)
IOOutcomes == {"ok", "mkdir_fail", "append_fail", "tmpwrite_fail", "rename_fail"}

\* a compaction that keeps the oldest records
keptHead(events) == SubSeq(events, 1, Min(KEEP_EVENT_LINES, Len(events)))

\* state.events.slice(Math.max(0, state.events.length - KEEP_EVENT_LINES))
keptTail(events) == SliceFrom(events, Max(0, Len(events) - KEEP_EVENT_LINES))

\* the outcomes in which writeFileSync or renameSync raises inside a compaction,
\* alone or followed by a failure of the rmSync of the finally block
RewriteFailures == {"tmpwrite_fail", "rename_fail", "tmpwrite_rm_fail", "rename_rm_fail"}

\* the file system calls of a compaction: all succeed, or statSync fails, or the
\* rewrite fails
CompactionOutcomes == {"ok", "stat_fail"} \cup RewriteFailures

\* the temporary file a compaction leaves behind: none when the rename moved it
\* or rmSync removed it; else what writeFileSync had written of the lines
leftTmp(kept, io) ==
  IF io = "tmpwrite_rm_fail" THEN <<[complete |-> FALSE, lines |-> kept]>>
  ELSE IF io = "rename_rm_fail" THEN <<[complete |-> TRUE, lines |-> kept]>>
  ELSE <<>>

\* a rewrite that writes the retained tail over the backing file in place, with
\* no temporary file and no rename
rewriteInPlace(state, lines, io) ==
  IF io = "stat_fail" THEN [state |-> state, lines |-> lines, threw |-> FALSE, tmp |-> <<>>]
  ELSE IF SumBytes(lines) <= MAX_EVENT_FILE_BYTES
       THEN [state |-> state, lines |-> lines, threw |-> FALSE, tmp |-> <<>>]
  ELSE IF io \in RewriteFailures
       THEN [state |-> state, lines |-> <<>>, threw |-> TRUE, tmp |-> <<>>]
       ELSE [state |-> [state EXCEPT !.events = keptTail(state.events),
                                     !.byKey = rebuildByKey(keptTail(state.events))],
             lines |-> [i \in 1..Len(keptTail(state.events)) |->
                          stringify(keptTail(state.events)[i])],
             threw |-> FALSE, tmp |-> <<>>]

\* a compaction that rewrites the file and leaves the in-memory state as it was
pruneEventFileKeepsState(state, lines, io) ==
  IF io = "stat_fail" THEN [state |-> state, lines |-> lines, threw |-> FALSE, tmp |-> <<>>]
  ELSE IF SumBytes(lines) <= MAX_EVENT_FILE_BYTES
       THEN [state |-> state, lines |-> lines, threw |-> FALSE, tmp |-> <<>>]
  ELSE [state |-> state,
        lines |-> IF io \in RewriteFailures THEN lines
                  ELSE [i \in 1..Len(keptTail(state.events)) |->
                          stringify(keptTail(state.events)[i])],
        threw |-> io \in RewriteFailures,
        tmp |-> leftTmp(keptTail(state.events), io)]

\* a compaction that cuts the in-memory state down before it rewrites the file
pruneEventFileAssignsFirst(state, lines, io) ==
  IF io = "stat_fail" THEN [state |-> state, lines |-> lines, threw |-> FALSE, tmp |-> <<>>]
  ELSE IF SumBytes(lines) <= MAX_EVENT_FILE_BYTES
       THEN [state |-> state, lines |-> lines, threw |-> FALSE, tmp |-> <<>>]
  ELSE [state |-> [state EXCEPT !.events = keptTail(state.events),
                                !.byKey = rebuildByKey(keptTail(state.events))],
        lines |-> IF io \in RewriteFailures THEN lines
                  ELSE [i \in 1..Len(keptTail(state.events)) |->
                          stringify(keptTail(state.events)[i])],
        threw |-> io \in RewriteFailures,
        tmp |-> leftTmp(keptTail(state.events), io)]

\* pruneEventFileIfNeeded: [state, lines, threw] after it ran on state and the file's
\* lines, and tmp: the temporary file it left behind, if any
pruneEventFileIfNeeded(state, lines, io) ==
  IF io = "stat_fail" THEN [state |-> state, lines |-> lines, threw |-> FALSE, tmp |-> <<>>]
  ELSE IF SumBytes(lines) <= MAX_EVENT_FILE_BYTES
       THEN [state |-> state, lines |-> lines, threw |-> FALSE, tmp |-> <<>>]
  ELSE LET kept == keptTail(state.events)
       IN IF io \in RewriteFailures
          THEN [state |-> state, lines |-> lines, threw |-> TRUE, tmp |-> leftTmp(kept, io)]
          ELSE [state |-> [state EXCEPT !.events = kept, !.byKey = rebuildByKey(kept)],
                lines |-> [i \in 1..Len(kept) |-> stringify(kept[i])],
                threw |-> FALSE, tmp |-> <<>>]

\* a trim that cuts the list and leaves the index as it was
trimInMemoryKeepsIndex(state) ==
  IF Len(state.events) > MAX_EVENTS_IN_MEMORY
  THEN [state EXCEPT !.events = SliceFrom(state.events,
                                          Len(state.events) - MAX_EVENTS_IN_MEMORY)]
  ELSE state

\* an append that never trims the window
trimInMemoryNever(state) == state

\* the in-memory trim of appendContextEvent (lines 186-189)
trimInMemory(state) ==
  IF Len(state.events) > MAX_EVENTS_IN_MEMORY
  THEN LET t == SliceFrom(state.events, Len(state.events) - MAX_EVENTS_IN_MEMORY)
       IN [state EXCEPT !.events = t, !.byKey = rebuildByKey(t)]
  ELSE state

\* a lookup that never finds the key
findDuplicateMiss(state, idempotencyKey) == <<>>

\* state.byKey.get(idempotencyKey): the stored event, or nothing
findDuplicate(state, idempotencyKey) ==
  IF idempotencyKey \in DOMAIN state.byKey THEN <<state.byKey[idempotencyKey]>> ELSE <<>>

\* the event appendContextEvent constructs (lines 171-182)
newEvent(state, input, ts) ==
  [seq |-> state.nextSeq, ts |-> ts, sessionKey |-> input.sessionKey,
   source |-> input.source, sourceId |-> input.sourceId,
   hash |-> input.hash, idempotencyKey |-> input.idempotencyKey,
   text |-> input.text, contextKey |-> input.contextKey]

\* state.nextSeq++, state.events.push(event), state.byKey.set(key, event)
pushEvent(state, event) ==
  [state EXCEPT !.nextSeq = state.nextSeq + 1,
                !.events = Append(state.events, event),
                !.byKey = [k \in DOMAIN state.byKey \cup {event.idempotencyKey} |->
                             IF k = event.idempotencyKey THEN event
                             ELSE state.byKey[k]]]

\* the end of appendContextEvent (lines 193-195): pruned is what
\* pruneEventFileIfNeeded left of the state and the file
appendReturn(bus, fl, filePath, event, pruned) ==
  [bus |-> [bus EXCEPT ![filePath] = pruned.state],
   file |-> [fl EXCEPT ![filePath] = pruned.lines,
                       ![TmpPath(filePath)] = @ \o pruned.tmp],
   threw |-> pruned.threw,
   appended |-> ~pruned.threw,
   constructed |-> TRUE,
   event |-> IF pruned.threw THEN <<>> ELSE <<event>>]

\* lines 191-195 of appendContextEvent: mkdirSync, appendFileSync and
\* pruneEventFileIfNeeded, on the state the event was already pushed to
writeEvent(bus, fl, io, filePath, event, trimmed) ==
  IF io \in {"mkdir_fail", "append_fail"}
  THEN [bus |-> [bus EXCEPT ![filePath] = trimmed], file |-> fl, threw |-> TRUE,
        appended |-> FALSE, constructed |-> TRUE, event |-> <<>>]
  ELSE appendReturn(bus, fl, filePath, event,
                    pruneEventFileIfNeeded(trimmed, appendFileSync(fl[filePath], event), io))

\* lines 166-195 of appendContextEvent, on the loaded state of the partition
appendToState(bus, fl, input, ts, io, filePath, state) ==
  IF findDuplicate(state, input.idempotencyKey) # <<>>
  THEN [bus |-> [bus EXCEPT ![filePath] = state], file |-> fl, threw |-> FALSE,
        appended |-> FALSE, constructed |-> FALSE,
        event |-> findDuplicate(state, input.idempotencyKey)]
  ELSE writeEvent(bus, fl, io, filePath, newEvent(state, input, ts),
                  trimInMemory(pushEvent(state, newEvent(state, input, ts))))

\* appendContextEvent(input) with Date.now() = ts and file system outcome io:
\* [bus, file, threw, appended, event], and constructed: whether the clock was read
appendContextEvent(bus, fl, input, ts, io) ==
  appendToState(bus, fl, input, ts, io, resolveEventBusPath(input.sessionKey),
                loadBusState(bus, fl, resolveEventBusPath(input.sessionKey)))

\* a cap that keeps the oldest matches
capToLimitOldest(result, limit) ==
  IF Len(result) <= limit THEN result
  ELSE SubSeq(result, 1, limit)

\* lines 224-225 of queryContextEvents: the last limit matches
capToLimit(result, limit) ==
  IF Len(result) <= limit THEN result
  ELSE SliceFrom(result, Len(result) - limit)

\* queryContextEvents({sessionKey, source, afterSeq, limit}) on a loaded state;
\* an optional number is <<>> or <<n>>
queryContextEvents(state, sessionKey, source, afterSeq, limitRaw) ==
  LET src == IF source = Undefined THEN "" ELSE toLowerCase(trim(source))
      after == IF afterSeq = <<>> THEN 0 ELSE afterSeq[1]
      lim == IF limitRaw = <<>> THEN DEFAULT_QUERY_LIMIT ELSE limitRaw[1]
      limit == Max(1, Min(MAX_QUERY_LIMIT, lim))
      Match(event) ==
        /\ event.sessionKey = sessionKey
        /\ event.seq > after
        /\ (src = "" \/ toLowerCase(event.source) = src)
      result == SelectSeq(state.events, Match)
  IN capToLimit(result, limit)

\* the seq of the oldest event of the window
getContextEventOldestSeq(state) ==
  IF state.events = <<>> THEN 0 ELSE state.events[1].seq

getContextEventLatestSeq(state) ==
  IF state.events = <<>> THEN 0 ELSE state.events[Len(state.events)].seq

----------------------------------------------------------------------------
\* Session delivery queue (system-events.ts)

\* a check that falls back to the main session when no key is given
requireSessionKeyOrMain(key) ==
  IF key = Undefined THEN <<"agent:main:main">>
  ELSE IF trim(key) = "" THEN <<"agent:main:main">>
  ELSE <<trim(key)>>

\* requireSessionKey(key): <<the trimmed key>>, or <<>> when it throws
requireSessionKey(key) ==
  IF key = Undefined THEN <<>>
  ELSE IF trim(key) = "" THEN <<>>
  ELSE <<trim(key)>>

normalizeSource(source) ==
  LET trimmed == IF source = Undefined THEN "" ELSE toLowerCase(trim(source))
  IN IF trimmed = "" THEN "system" ELSE trimmed

\* a normalization that keeps the letter case
normalizeContextKeyNoLower(key) ==
  IF key = Undefined \/ key = "" THEN Undefined
  ELSE IF trim(key) = "" THEN Undefined
  ELSE trim(key)

normalizeContextKey(key) ==
  IF key = Undefined \/ key = "" THEN Undefined
  ELSE IF trim(key) = "" THEN Undefined
  ELSE toLowerCase(trim(key))

normalizeSourceId(sourceId, contextKey, sessionKey) ==
  LET explicit == IF sourceId = Undefined THEN "" ELSE trim(sourceId)
      context == normalizeContextKey(contextKey)
  IN IF explicit # "" THEN explicit
     ELSE IF context # Undefined THEN context
     ELSE sessionKey

resolveEventHash(text, hash) ==
  LET explicit == IF hash = Undefined THEN "" ELSE toLowerCase(trim(hash))
  IN IF explicit # "" THEN explicit ELSE Sha1(text)

resolveIdempotencyKey(source, sourceId, hash, idempotencyKey) ==
  LET explicit == IF idempotencyKey = Undefined THEN "" ELSE toLowerCase(trim(idempotencyKey))
  IN IF explicit # "" THEN explicit
     ELSE source \o ":" \o sourceId \o ":" \o hash

toSystemEventFromBus(event) ==
  [text |-> event.text, ts |-> event.ts, seq |-> event.seq, source |-> event.source,
   sourceId |-> event.sourceId, hash |-> event.hash, idempotencyKey |-> event.idempotencyKey]

\* a full queue that refuses the newest entry instead of evicting the oldest
pushBoundedDropNewest(queue, e) ==
  IF Len(queue) >= MAX_EVENTS THEN queue ELSE Append(queue, e)

\* entry.queue.push(e); if (entry.queue.length > MAX_EVENTS) entry.queue.shift()
pushBounded(queue, e) ==
  LET q == Append(queue, e)
  IN IF Len(q) > MAX_EVENTS THEN Tail(q) ELSE q

\* the Append input enqueueSystemEvent builds from its arguments
appendInput(key, cleaned, options) ==
  LET source == normalizeSource(options.source)
      sourceId == normalizeSourceId(options.sourceId, options.contextKey, key)
      hash == resolveEventHash(cleaned, options.hash)
  IN [sessionKey |-> key, source |-> source, sourceId |-> sourceId, hash |-> hash,
      idempotencyKey |-> resolveIdempotencyKey(source, sourceId, hash,
                                               options.idempotencyKey),
      text |-> cleaned, contextKey |-> normalizeContextKey(options.contextKey)]

\* what queues.get(key) ?? {queue: [], lastContextKey: null} is for a key the Map
\* lacks (never created, or after queues.delete(key)); Undefined stands for null
Absent == [queue |-> <<>>, lastContextKey |-> Undefined, present |-> FALSE]

\* lines 124-133 of enqueueSystemEvent: the Map gets an entry for the key if it
\* has none
getOrCreate(q, key) == [q EXCEPT ![key].present = TRUE]

\* an enqueue that records the context key only when it queued the event
enqueueReturnSkipsDuplicate(q, key, options, r) ==
  [queues |-> IF r.appended
              THEN [q EXCEPT ![key] =
                      [queue |-> pushBounded(q[key].queue, toSystemEventFromBus(r.event[1])),
                       lastContextKey |-> normalizeContextKey(options.contextKey),
                       present |-> TRUE]]
              ELSE q,
   busByPath |-> r.bus, file |-> r.file, threw |-> r.threw,
   appended |-> r.appended, constructed |-> r.constructed, event |-> r.event]

\* an enqueue that files every entry under the main session
enqueueReturnToMain(q, key, options, r) ==
  [queues |-> IF r.threw THEN q
              ELSE [q EXCEPT ![MainSession] =
                      [queue |-> IF r.appended
                                 THEN pushBounded(q[MainSession].queue,
                                                  toSystemEventFromBus(r.event[1]))
                                 ELSE q[MainSession].queue,
                       lastContextKey |-> normalizeContextKey(options.contextKey),
                       present |-> TRUE]],
   busByPath |-> r.bus, file |-> r.file, threw |-> r.threw,
   appended |-> r.appended, constructed |-> r.constructed, event |-> r.event]

\* an enqueue that catches what appendContextEvent raises and goes on as after a
\* duplicate
enqueueReturnCatches(q, key, options, r) ==
  [queues |-> [q EXCEPT ![key] =
                 [queue |-> IF r.appended
                            THEN pushBounded(q[key].queue, toSystemEventFromBus(r.event[1]))
                            ELSE q[key].queue,
                  lastContextKey |-> normalizeContextKey(options.contextKey),
                  present |-> TRUE]],
   busByPath |-> r.bus, file |-> r.file, threw |-> FALSE,
   appended |-> r.appended, constructed |-> r.constructed, event |-> r.event]

\* lines 161-165 of enqueueSystemEvent on the Map q that has the key: r is what
\* appendContextEvent gave; when it raised, none of these lines ran
enqueueReturn(q, key, options, r) ==
  [queues |-> IF r.threw THEN q
              ELSE [q EXCEPT ![key] =
                      [queue |-> IF r.appended
                                 THEN pushBounded(q[key].queue, toSystemEventFromBus(r.event[1]))
                                 ELSE q[key].queue,
                       lastContextKey |-> normalizeContextKey(options.contextKey),
                       present |-> TRUE]],
   busByPath |-> r.bus, file |-> r.file, threw |-> r.threw,
   appended |-> r.appended, constructed |-> r.constructed, event |-> r.event]

\* an enqueue that drops a blank text only after it recorded the context key
enqueueSystemEventBlankLate(q, bus, fl, ts, key, text, options, io) ==
  IF trim(text) = ""
  THEN [queues |-> [q EXCEPT ![key].present = TRUE,
                             ![key].lastContextKey = normalizeContextKey(options.contextKey)],
        busByPath |-> bus, file |-> fl, threw |-> FALSE,
        appended |-> FALSE, constructed |-> FALSE, event |-> <<>>]
  ELSE enqueueReturn(getOrCreate(q, key), key, options,
                     appendContextEvent(bus, fl, appendInput(key, trim(text), options), ts, io))

\* enqueueSystemEvent(text, {sessionKey, ...options}) from line 124 on, key being
\* what requireSessionKey returned, with Date.now() = ts and file system outcome
\* io: the module state after the call, and what the call of appendContextEvent
\* gave (nothing when the text is blank)
enqueueSystemEvent(q, bus, fl, ts, key, text, options, io) ==
  IF trim(text) = ""
  THEN [queues |-> getOrCreate(q, key), busByPath |-> bus, file |-> fl, threw |-> FALSE,
        appended |-> FALSE, constructed |-> FALSE, event |-> <<>>]
  ELSE enqueueReturn(getOrCreate(q, key), key, options,
                     appendContextEvent(bus, fl, appendInput(key, trim(text), options), ts, io))

\* isSystemEventContextChanged(key, contextKey)
isSystemEventContextChanged(q, key, contextKey) ==
  normalizeContextKey(contextKey) # q[key].lastContextKey

\* a peek that lists the newest entry first
peekNewestFirst(q, key) ==
  [i \in 1..Len(q[key].queue) |-> q[key].queue[Len(q[key].queue) + 1 - i].text]

\* a test for the Map entry instead of the queue length
hasSystemEventsByEntry(q, key) == q[key].present

\* hasSystemEvents(key)
hasSystemEvents(q, key) == Len(q[key].queue) > 0

\* peekSystemEvents(key)
peekSystemEvents(q, key) == [i \in 1..Len(q[key].queue) |-> q[key].queue[i].text]

\* a drain that returns the entries and leaves them queued
drainKeepsQueue(q, bus, fl, key) ==
  [queues |-> q, busByPath |-> bus, file |-> fl, out |-> q[key].queue]

\* a drain that also forgets the partition of the key, in memory and on disk
drainAlsoClearsStore(q, bus, fl, key) ==
  IF q[key].queue = <<>>
  THEN [queues |-> q, busByPath |-> bus, file |-> fl, out |-> <<>>]
  ELSE [queues |-> [q EXCEPT ![key] = Absent],
        busByPath |-> [bus EXCEPT ![resolveEventBusPath(key)] = NotLoaded],
        file |-> [fl EXCEPT ![resolveEventBusPath(key)] = <<>>],
        out |-> q[key].queue]

\* drainSystemEventEntries(key): the module state after the call and the entries returned
drainSystemEventEntries(q, bus, fl, key) ==
  IF q[key].queue = <<>>
  THEN [queues |-> q, busByPath |-> bus, file |-> fl, out |-> <<>>]
  ELSE [queues |-> [q EXCEPT ![key] = Absent], busByPath |-> bus, file |-> fl,
        out |-> q[key].queue]

\* peekSystemEventEntriesSince(key, {afterSeq, limit}): the bus after the call
\* (the partition is loaded) and the entries returned
peekSystemEventEntriesSince(bus, fl, key, afterSeq, limit) ==
  LET filePath == resolveEventBusPath(key)
      state == loadBusState(bus, fl, filePath)
      events == queryContextEvents(state, key, Undefined, afterSeq, limit)
  IN [busByPath |-> [bus EXCEPT ![filePath] = state],
      out |-> [i \in 1..Len(events) |-> toSystemEventFromBus(events[i])]]

\* getLatestSystemEventSeq(key)
getLatestSystemEventSeq(bus, fl, key) ==
  getContextEventLatestSeq(loadBusState(bus, fl, resolveEventBusPath(key)))

----------------------------------------------------------------------------
\* State machine

NoRet == [op |-> "none", sessionKey |-> "", s |-> "", text |-> "", idempotencyKey |-> "",
          suppliedKey |-> "", sourceId |-> Undefined, hash |-> Undefined,
          contextKey |-> Undefined, source |-> Undefined, io |-> "", afterSeq |-> <<>>,
          limit |-> <<>>, appended |-> FALSE, threw |-> FALSE, out |-> <<>>,
          seq |-> 0, pending |-> FALSE]

Range(q) == {q[i] : i \in 1..Len(q)}

Init ==
  /\ file = [p \in Paths \cup TmpPaths |-> <<>>]
  /\ busByPath = [p \in Paths |-> NotLoaded]
  /\ queues = [s \in Sessions |-> Absent]
  /\ now = 0
  /\ cursor = 0
  /\ ret = NoRet
  /\ accepted = [p \in Paths |-> <<>>]
  /\ seen = {}
  /\ delivered = [s \in Sessions |-> <<>>]
  /\ owed = [s \in Sessions |-> <<>>]
  /\ fresh = [s \in Sessions |-> <<>>]
  /\ supplied = [s \in Sessions |-> {}]
  /\ peer = [busByPath |-> [p \in Paths |-> NotLoaded],
             queues |-> [s \in Sessions |-> Absent]]

\* the state after a call of enqueueSystemEvent that gave r; obs names the
\* histories that are recorded
EnqueueStep(r, sessionKey, key, text, options, io, obs) ==
  /\ queues' = r.queues
  /\ busByPath' = r.busByPath
  /\ file' = r.file
  /\ now' = IF r.constructed THEN now + 1 ELSE now
  /\ ret' = [op |-> "enqueue", sessionKey |-> sessionKey, s |-> key, text |-> trim(text),
             idempotencyKey |-> IF trim(text) = "" THEN ""
                                ELSE appendInput(key, trim(text), options).idempotencyKey,
             suppliedKey |-> IF "key" \in obs THEN options.idempotencyKey ELSE "",
             sourceId |-> IF "key" \in obs THEN options.sourceId ELSE Undefined,
             hash |-> IF "key" \in obs THEN options.hash ELSE Undefined,
             contextKey |-> options.contextKey, source |-> options.source,
             io |-> IF "io" \in obs THEN io ELSE "", afterSeq |-> <<>>, limit |-> <<>>,
             appended |-> r.appended, threw |-> r.threw, out |-> r.event, seq |-> 0,
             pending |-> FALSE]
  /\ accepted' = IF r.appended /\ "store" \in obs
                 THEN [accepted EXCEPT ![resolveEventBusPath(key)] = Append(@, r.event[1])]
                 ELSE accepted
  /\ seen' = IF "store" \in obs /\ ~r.appended
              THEN seen \cup (Range(r.event) \ Range(accepted[resolveEventBusPath(key)]))
              ELSE seen
  /\ owed' = IF r.appended /\ "owed" \in obs
             THEN [owed EXCEPT ![key] = Append(@, toSystemEventFromBus(r.event[1]))]
             ELSE owed
  /\ fresh' = IF r.appended /\ "queue" \in obs
              THEN [fresh EXCEPT ![key] = Append(@, toSystemEventFromBus(r.event[1]))]
              ELSE fresh
  /\ supplied' = IF "key" \in obs /\ ~r.threw /\ trim(text) # ""
                 THEN [supplied EXCEPT ![key] = @ \cup {options.idempotencyKey}]
                 ELSE supplied
  /\ UNCHANGED <<peer, cursor, delivered>>

\* the state after a call that requireSessionKey ended with its Error
UsageError(op, sessionKey) ==
  /\ ret' = [NoRet EXCEPT !.op = op, !.sessionKey = sessionKey, !.threw = TRUE]
  /\ UNCHANGED <<peer, supplied, file, busByPath, queues, now, cursor, accepted, seen, delivered, owed,
                 fresh>>

\* the rest of enqueueSystemEvent once requireSessionKey has returned required[1]
EnqueueKey(required, sessionKey, text, options, io, obs) ==
  EnqueueStep(enqueueSystemEvent(queues, busByPath, file, now, required[1], text, options, io),
              sessionKey, required[1], text, options, io, obs)

\* a producer calls enqueueSystemEvent(text, {sessionKey, ...options})
Enqueue(sessionKey, text, options, io, obs) ==
  /\ now < MaxNow
  /\ IF requireSessionKey(sessionKey) = <<>>
     THEN UsageError("enqueue", sessionKey)
     ELSE EnqueueKey(requireSessionKey(sessionKey), sessionKey, text, options, io, obs)

\* the prompt composer calls drainSystemEventEntries
Drain(key) ==
  LET r == drainSystemEventEntries(queues, busByPath, file, key)
  IN /\ queues' = r.queues
     /\ busByPath' = r.busByPath
     /\ file' = r.file
     /\ ret' = [NoRet EXCEPT !.op = "drain", !.s = key, !.out = r.out]
     /\ delivered' = [delivered EXCEPT ![key] = @ \o r.out]
     /\ owed' = [owed EXCEPT ![key] = <<>>]
     /\ fresh' = [fresh EXCEPT ![key] = <<>>]
     /\ UNCHANGED <<peer, supplied, now, cursor, accepted, seen>>

\* a reader calls queryContextEvents({sessionKey: key, afterSeq})
Query(key, source, afterSeq, limit, obs) ==
  LET filePath == resolveEventBusPath(key)
      state == loadBusState(busByPath, file, filePath)
      out == queryContextEvents(state, key, source, afterSeq, limit)
  IN /\ busByPath' = [busByPath EXCEPT ![filePath] = state]
     /\ ret' = [NoRet EXCEPT !.op = "query", !.s = key, !.source = source,
                             !.afterSeq = afterSeq, !.limit = limit, !.out = out]
     /\ seen' = IF "store" \in obs THEN seen \cup (Range(out) \ Range(accepted[filePath]))
                 ELSE seen
     /\ UNCHANGED <<peer, supplied, file, queues, now, cursor, accepted, delivered, owed, fresh>>

\* a reader calls getLatestSystemEventSeq(key)
LatestSeq(key) ==
  /\ busByPath' = [busByPath EXCEPT ![resolveEventBusPath(key)] =
                     loadBusState(busByPath, file, resolveEventBusPath(key))]
  /\ ret' = [NoRet EXCEPT !.op = "latest", !.s = key,
                          !.seq = getLatestSystemEventSeq(busByPath, file, key)]
  /\ UNCHANGED <<peer, supplied, file, queues, now, cursor, accepted, seen, delivered, owed, fresh>>

\* a caller asks hasSystemEvents(sessionKey)
HasPending(sessionKey) ==
  IF requireSessionKey(sessionKey) = <<>>
  THEN UsageError("has", sessionKey)
  ELSE /\ ret' = [NoRet EXCEPT !.op = "has", !.sessionKey = sessionKey,
                               !.s = requireSessionKey(sessionKey)[1],
                               !.pending = hasSystemEvents(queues,
                                                           requireSessionKey(sessionKey)[1])]
       /\ UNCHANGED <<peer, supplied, file, busByPath, queues, now, cursor, accepted, seen,
                      delivered, owed, fresh>>

\* a caller calls peekSystemEvents(sessionKey)
Peek(sessionKey) ==
  IF requireSessionKey(sessionKey) = <<>>
  THEN UsageError("peek", sessionKey)
  ELSE /\ ret' = [NoRet EXCEPT !.op = "peek", !.sessionKey = sessionKey,
                               !.s = requireSessionKey(sessionKey)[1],
                               !.out = peekSystemEvents(queues,
                                                        requireSessionKey(sessionKey)[1])]
       /\ UNCHANGED <<peer, supplied, file, busByPath, queues, now, cursor, accepted, seen,
                      delivered, owed, fresh>>

\* one poll of the cursor consumer: peekSystemEventEntriesSince(key, {afterSeq: cursor}),
\* then cursor := the highest seq returned
Poll ==
  LET r == peekSystemEventEntriesSince(busByPath, file, MainSession, <<cursor>>, <<>>)
  IN /\ busByPath' = r.busByPath
     /\ ret' = [NoRet EXCEPT !.op = "poll", !.s = MainSession, !.out = r.out]
     /\ cursor' = IF r.out = <<>> THEN cursor ELSE r.out[Len(r.out)].seq
     /\ UNCHANGED <<peer, supplied, file, queues, now, accepted, seen, delivered, owed, fresh>>

\* the process dies inside the appendFileSync of an enqueueSystemEvent and starts
\* again: a part of the record is in the file, module state is gone
CrashInAppend(key, text, options) ==
  /\ now < MaxNow
  /\ trim(text) # ""
  /\ findDuplicate(loadBusState(busByPath, file, resolveEventBusPath(key)),
                   appendInput(key, trim(text), options).idempotencyKey) = <<>>
  /\ file' = [file EXCEPT ![resolveEventBusPath(key)] =
                tornWrite(@, newEvent(loadBusState(busByPath, file, resolveEventBusPath(key)),
                                      appendInput(key, trim(text), options), now))]
  /\ now' = now + 1
  /\ busByPath' = [p \in Paths |-> NotLoaded]
  /\ queues' = [s \in Sessions |-> Absent]
  /\ fresh' = [s \in Sessions |-> <<>>]
  /\ ret' = [NoRet EXCEPT !.op = "crash", !.s = key, !.text = trim(text)]
  /\ UNCHANGED <<peer, supplied, cursor, accepted, seen, delivered, owed>>

\* where a process can die inside the rewrite of pruneEventFileIfNeeded: inside
\* writeFileSync, between writeFileSync and renameSync, and behind renameSync
CrashPoints == {"in_tmpwrite", "before_rename", "after_rename"}

\* the files after the process died at `point` of the compaction that follows the
\* append of event; pushed is the partition state the event was pushed to
crashedCompaction(fl, filePath, event, pushed, point) ==
  IF point = "after_rename"
  THEN [fl EXCEPT ![filePath] = [i \in 1..Len(keptTail(pushed.events)) |->
                                  stringify(keptTail(pushed.events)[i])]]
  ELSE [fl EXCEPT ![filePath] = appendFileSync(@, event),
                  ![TmpPath(filePath)] =
                     Append(@, [complete |-> point = "before_rename",
                                lines |-> keptTail(pushed.events)])]

\* the process dies inside pruneEventFileIfNeeded, after the appendFileSync of an
\* enqueueSystemEvent left the file above the threshold, and starts again
CrashInCompaction(key, text, options, point) ==
  /\ now < MaxNow
  /\ trim(text) # ""
  /\ findDuplicate(loadBusState(busByPath, file, resolveEventBusPath(key)),
                   appendInput(key, trim(text), options).idempotencyKey) = <<>>
  /\ SumBytes(file[resolveEventBusPath(key)]) + TextBytes(trim(text)) > MAX_EVENT_FILE_BYTES
  /\ file' = crashedCompaction(
                file, resolveEventBusPath(key),
                newEvent(loadBusState(busByPath, file, resolveEventBusPath(key)),
                         appendInput(key, trim(text), options), now),
                trimInMemory(pushEvent(
                  loadBusState(busByPath, file, resolveEventBusPath(key)),
                  newEvent(loadBusState(busByPath, file, resolveEventBusPath(key)),
                           appendInput(key, trim(text), options), now))),
                point)
  /\ now' = now + 1
  /\ busByPath' = [p \in Paths |-> NotLoaded]
  /\ queues' = [s \in Sessions |-> Absent]
  /\ fresh' = [s \in Sessions |-> <<>>]
  /\ ret' = [NoRet EXCEPT !.op = "crash", !.s = key, !.text = trim(text), !.io = point]
  /\ UNCHANGED <<peer, supplied, cursor, accepted, seen, delivered, owed>>

\* the state after a call of enqueueSystemEvent in the second process gave r
PeerEnqueueStep(r, key, text) ==
  /\ peer' = [busByPath |-> r.busByPath, queues |-> r.queues]
  /\ file' = r.file
  /\ now' = IF r.constructed THEN now + 1 ELSE now
  /\ ret' = [NoRet EXCEPT !.op = "peer_enqueue", !.sessionKey = key, !.s = key,
                          !.text = trim(text), !.appended = r.appended, !.out = r.event]
  /\ UNCHANGED <<busByPath, queues, supplied, cursor, accepted, seen, delivered, owed, fresh>>

\* a producer in the second process calls enqueueSystemEvent(text, {sessionKey,
\* ...options}): the same code on that process's own busByPath and queues, and
\* on the same files
PeerEnqueue(key, text, options) ==
  /\ now < MaxNow
  /\ PeerEnqueueStep(enqueueSystemEvent(peer.queues, peer.busByPath, file, now, key, text,
                                        options, "ok"),
                     key, text)

\* the process exits and starts again: module state is gone, the files stay
Restart ==
  /\ busByPath' = [p \in Paths |-> NotLoaded]
  /\ queues' = [s \in Sessions |-> Absent]
  /\ fresh' = [s \in Sessions |-> <<>>]
  /\ ret' = [NoRet EXCEPT !.op = "restart"]
  /\ UNCHANGED <<peer, supplied, file, now, cursor, accepted, seen, delivered, owed>>

\* the store under storage failures and restarts, with its readers
NextStore ==
  \/ \E key \in Producers, text \in RawTexts, options \in KeyOptions, io \in IOOutcomes :
       Enqueue(key, text, options, io, {"store"})
  \/ \E key \in Producers, afterSeq \in AfterSeqs : Query(key, Undefined, <<afterSeq>>, <<>>, {"store"})
  \/ Restart

SpecStore == Init /\ [][NextStore]_vars

\* the store and the queue while no file system call fails
NextNoFail ==
  \/ \E key \in Producers, text \in RawTexts, options \in KeyOptions :
       Enqueue(key, text, options, "ok", {"store", "queue", "owed"})
  \/ \E key \in Producers : Drain(key)
  \/ \E key \in Producers : LatestSeq(key)
  \/ Restart

SpecNoFail == Init /\ [][NextNoFail]_vars

\* the delivery queue under storage failures and restarts
NextQueue ==
  \/ \E key \in Producers, text \in RawTexts, options \in KeyOptions, io \in IOOutcomes :
       Enqueue(key, text, options, io, {"queue", "owed"})
  \/ \E key \in Producers : Drain(key)
  \/ \E key \in Producers, afterSeq \in AfterSeqs : Query(key, Undefined, <<afterSeq>>, <<>>, {})
  \/ Restart

SpecQueue == Init /\ [][NextQueue]_vars

\* the cursor consumer beside producers and the prompt composer
NextCursor ==
  \/ \E key \in Producers, text \in RawTexts, options \in KeyOptions, io \in IOOutcomes :
       Enqueue(key, text, options, io, {})
  \/ \E key \in Producers : Drain(key)
  \/ Poll

SpecCursor == Init /\ [][NextCursor]_vars

\* two sessions of one agent, each with its producers and readers, while no file
\* system call fails
SharedTexts == {"a", "bbbbb "}

SharedOptions == SystemEventOptions({Undefined}, {Undefined}, {"k1", Undefined})

NextShared ==
  \/ \E key \in Sessions, text \in SharedTexts, options \in SharedOptions :
       Enqueue(key, text, options, "ok", {"store", "queue"})
  \/ \E key \in Sessions : Drain(key)
  \/ \E key \in Sessions : Query(key, Undefined, <<0>>, <<MAX_QUERY_LIMIT>>, {})
  \/ Restart

SpecShared == Init /\ [][NextShared]_vars

\* producers that pass context keys, beside the prompt composer, under storage
\* failures and restarts
ContextTexts == {"a", " "}

ContextOptions == SystemEventOptions(RawContextKeys, {Undefined}, {"k1", Undefined})

\* all file system calls succeed, or the append raises
ContextOutcomes == {"ok", "append_fail"}

NextContext ==
  \/ \E key \in Producers, text \in ContextTexts, options \in ContextOptions,
        io \in ContextOutcomes :
       Enqueue(key, text, options, io, {"queue"})
  \/ \E key \in Producers : Drain(key)
  \/ Restart

SpecContext == Init /\ [][NextContext]_vars

\* readers that filter by source and cap the result, over two sessions of one
\* agent whose producers name their source, with restarts
QueryTexts == {"a"}

QueryOptions == SystemEventOptions({Undefined}, RawSources, {"k1", Undefined})

\* the source, afterSeq and limit arguments readers pass
QuerySources == {Undefined, "CRON", "system"}

QueryAfterSeqs == {<<>>, <<0>>, <<1>>, <<2>>}

QueryLimits == {<<>>, <<0>>, <<1>>, <<MAX_QUERY_LIMIT>>, <<MAX_QUERY_LIMIT + 1>>}

NextQuery ==
  \/ \E key \in Sessions, text \in QueryTexts, options \in QueryOptions :
       Enqueue(key, text, options, "ok", {})
  \/ \E key \in Sessions, source \in {Undefined, "CRON"}, afterSeq \in {<<>>, <<1>>},
        limit \in {<<>>, <<MAX_QUERY_LIMIT + 1>>} :
       Query(key, source, afterSeq, limit, {})
  \/ Restart

SpecQuery == Init /\ [][NextQuery]_vars

\* readers beside a producer whose appends may fail, with restarts
ReadOptions == SystemEventOptions({Undefined}, {Undefined}, {"k1", Undefined})

\* all file system calls succeed, or the append raises
ReadOutcomes == {"ok", "append_fail"}

NextRead ==
  \/ \E key \in Producers, text \in RawTexts, options \in ReadOptions, io \in ReadOutcomes :
       Enqueue(key, text, options, io, {})
  \/ \E key \in Producers, afterSeq \in AfterSeqs, limit \in {<<>>, <<MAX_QUERY_LIMIT>>} :
       Query(key, Undefined, <<afterSeq>>, limit, {})
  \/ \E key \in Producers : LatestSeq(key)
  \/ Restart

SpecRead == Init /\ [][NextRead]_vars

\* producers that pass a session key that may be blank, missing or padded, beside
\* the prompt composer, with restarts, while no file system call fails
UsageSessionKeys == {MainSession, "agent:main:main ", " ", Undefined}

UsageTexts == {"a", "bbbbb "}

UsageOptions == SystemEventOptions({Undefined, "ctx-a"}, {Undefined}, {Undefined})

NextUsage ==
  \/ \E sessionKey \in UsageSessionKeys, text \in UsageTexts, options \in UsageOptions :
       Enqueue(sessionKey, text, options, "ok", {"queue"})
  \/ \E key \in Producers : Drain(key)
  \/ \E sessionKey \in UsageSessionKeys : HasPending(sessionKey)
  \/ Restart

SpecUsage == Init /\ [][NextUsage]_vars

\* producers that pass context keys, under every storage failure, beside the
\* prompt composer, with restarts
FailureTexts == {"a", "bbbbb "}

FailureOptions == SystemEventOptions({Undefined, "ctx-a", "ctx-b"}, {Undefined}, {Undefined})

NextFailure ==
  \/ \E key \in Producers, text \in FailureTexts, options \in FailureOptions,
        io \in IOOutcomes :
       Enqueue(key, text, options, io, {"queue", "io"})
  \/ \E key \in Producers : Drain(key)
  \/ Restart

SpecFailure == Init /\ [][NextFailure]_vars

\* a producer whose process may die in the middle of a write, with restarts and a
\* reader; the records stay below the compaction threshold
CrashTexts == {"a"}

CrashOptions == SystemEventOptions({Undefined, "ctx-a", "ctx-b"}, {Undefined}, {Undefined})

NextCrash ==
  \/ \E key \in Producers, text \in CrashTexts, options \in CrashOptions :
       Enqueue(key, text, options, "ok", {"store"})
  \/ \E key \in Producers, text \in CrashTexts, options \in CrashOptions :
       CrashInAppend(key, text, options)
  \/ \E key \in Producers : Query(key, Undefined, <<0>>, <<MAX_QUERY_LIMIT>>, {"store"})
  \/ Restart

SpecCrash == Init /\ [][NextCrash]_vars

\* producers that name their events with idempotency keys that differ in letter
\* case and padding, in varying texts, sources and context keys, beside the
\* prompt composer, with restarts, while no file system call fails
SuppliedKeys == {"k1", "K1 "}

SuppliedOptions == SystemEventOptions({Undefined, "ctx-a"}, RawSources, SuppliedKeys)

NextSupplied ==
  \/ \E key \in Producers, text \in {"a", "bbbbb "}, options \in SuppliedOptions :
       Enqueue(key, text, options, "ok", {"queue", "key"})
  \/ \E key \in Producers : Drain(key)
  \/ Restart

SpecSupplied == Init /\ [][NextSupplied]_vars

\* producers that leave the idempotency key to be derived from source, sourceId
\* and hash or text, with restarts, while no file system call fails
DerivedOptions ==
  ProducerOptions({Undefined}, {Undefined}, RawSourceIds, RawHashes, {Undefined})

NextDerived ==
  \/ \E key \in Producers, text \in {"a", "bbbbb "}, options \in DerivedOptions :
       Enqueue(key, text, options, "ok", {"store", "key"})
  \/ Restart

SpecDerived == Init /\ [][NextDerived]_vars

\* a producer whose compactions may fail or be cut short by a crash, with restarts
CompactionOptions == SystemEventOptions({Undefined}, {Undefined}, {"k1", Undefined})

NextCompaction ==
  \/ \E key \in Producers, text \in {"a", "bbbbb "}, options \in CompactionOptions,
        io \in CompactionOutcomes :
       Enqueue(key, text, options, io, {"io"})
  \/ \E key \in Producers, text \in {"a", "bbbbb "}, options \in CompactionOptions,
        point \in CrashPoints :
       CrashInCompaction(key, text, options, point)
  \/ Restart

SpecCompaction == Init /\ [][NextCompaction]_vars

\* producers, a caller that peeks at the queue, and the prompt composer
PeekSessionKeys == {MainSession, "agent:main:main ", " "}

PeekOptions == SystemEventOptions({Undefined, "ctx-a"}, {Undefined}, {Undefined})

NextPeek ==
  \/ \E key \in Producers, text \in {"a", "bbbbb "}, options \in PeekOptions :
       Enqueue(key, text, options, "ok", {"queue"})
  \/ \E sessionKey \in PeekSessionKeys : Peek(sessionKey)
  \/ \E key \in Producers : Drain(key)
  \/ Restart

SpecPeek == Init /\ [][NextPeek]_vars

\* two processes produce into the same partition files
NextTwoWriters ==
  \/ \E key \in Producers, text \in {"a", "bbbbb "}, options \in CompactionOptions :
       Enqueue(key, text, options, "ok", {})
  \/ \E key \in Producers, text \in {"a", "bbbbb "}, options \in CompactionOptions :
       PeerEnqueue(key, text, options)
  \/ Restart

SpecTwoWriters == Init /\ [][NextTwoWriters]_vars

\* every operation, every history
Next ==
  \/ \E key \in Producers, text \in RawTexts, options \in KeyOptions, io \in IOOutcomes :
       Enqueue(key, text, options, io, {"store", "queue", "owed"})
  \/ \E key \in Producers : Drain(key)
  \/ \E key \in Producers, afterSeq \in AfterSeqs : Query(key, Undefined, <<afterSeq>>, <<>>, {"store"})
  \/ \E key \in Producers : LatestSeq(key)
  \/ \E key \in Producers : HasPending(key)
  \/ \E key \in Producers, text \in RawTexts, options \in KeyOptions :
       CrashInAppend(key, text, options)
  \/ Poll
  \/ Restart

Spec == Init /\ [][Next]_vars

----------------------------------------------------------------------------
\* Properties

\* no two elements of q are equal
NoDup(q) == \A i, j \in 1..Len(q) : i # j => q[i] # q[j]

\* the partition state a call on sessionKey works on
Loaded(sessionKey) == loadBusState(busByPath, file, resolveEventBusPath(sessionKey))

\* C1: an Append whose idempotency key is in the partition's dedup index returns
\* appended:false and the stored event, whatever text the new input carries, and
\* leaves the event list, the dedup index, the next sequence number and the file
\* as they were.
C1_DuplicateAppendIsNoOp ==
  [][(/\ ret'.op = "enqueue"
      /\ ret'.text # ""
      /\ ret'.idempotencyKey \in DOMAIN Loaded(ret'.s).byKey)
     => (/\ ~ret'.appended
         /\ ~ret'.threw
         /\ ret'.out = <<Loaded(ret'.s).byKey[ret'.idempotencyKey]>>
         /\ loadBusState(busByPath', file', resolveEventBusPath(ret'.s)) = Loaded(ret'.s)
         /\ file' = file
         /\ now' = now)]_vars

\* a duplicate carrying another text than the stored event was answered
C1_Witness ==
  /\ ret.op = "enqueue"
  /\ ~ret.appended
  /\ ~ret.threw
  /\ ret.out # <<>>
  /\ ret.out[1].text # ret.text
  /\ ret.out[1].ts < now

\* C2: within one partition an idempotency key is accepted at most once: no two
\* accepted events, and no two records of the file, carry the same key.
C2_KeyAcceptedOnce ==
  \A p \in Paths :
    /\ \A i, j \in 1..Len(accepted[p]) :
         i # j => accepted[p][i].idempotencyKey # accepted[p][j].idempotencyKey
    /\ \A i, j \in 1..Len(parseContextEvent(file[p])) :
         i # j => parseContextEvent(file[p])[i].idempotencyKey
                    # parseContextEvent(file[p])[j].idempotencyKey

\* C3: without storage failures the accepted events of a partition are numbered
\* 1, 2, 3, ... in acceptance order, and the next number a process would hand
\* out, after a reload from the file as well, is the largest stored one plus one.
C3_SeqStrictlyIncreasing ==
  \A p \in Paths :
    /\ \A i \in 1..Len(accepted[p]) : accepted[p][i].seq = i
    /\ loadBusState(busByPath, file, p).nextSeq = Len(accepted[p]) + 1
    /\ \A i \in 1..Len(parseContextEvent(file[p])) :
         parseContextEvent(file[p])[i].seq <= Len(accepted[p])

\* an event was accepted by a process that had reloaded the partition from a
\* compacted file: the queue holds only the event accepted after the restart
C3_Witness ==
  /\ Len(accepted[resolveEventBusPath(MainSession)]) >= 3
  /\ Len(queues[MainSession].queue) = 1
  /\ queues[MainSession].queue[1].seq = 3
  /\ Len(file[resolveEventBusPath(MainSession)]) < 3

\* C4: two distinct events of one partition, accepted or handed to a caller,
\* never carry the same seq.
C4_SeqUniquePerPartition ==
  \A e1, e2 \in seen \cup UNION {Range(accepted[p]) : p \in Paths} :
    (/\ resolveEventBusPath(e1.sessionKey) = resolveEventBusPath(e2.sessionKey)
     /\ e1.seq = e2.seq) => e1 = e2

\* C5: a Drain returns every entry queued for the key, oldest first, and leaves
\* the queue empty, so that a Drain right after it returns nothing; no entry is
\* returned by two Drains.
C5_DrainDeliversOnce ==
  /\ [](\A s \in Sessions : NoDup(delivered[s]))
  /\ [][ret'.op = "drain"
        => (/\ ret'.out = LastN(fresh[ret'.s], MAX_EVENTS)
            /\ queues'[ret'.s].queue = <<>>
            /\ drainSystemEventEntries(queues', busByPath', file', ret'.s).out = <<>>)]_vars

\* a Drain returned two entries in the order they were enqueued, after an earlier
\* Drain had returned another one
C5_Witness ==
  /\ ret.op = "drain"
  /\ Len(ret.out) = 2
  /\ ret.out[1].seq < ret.out[2].seq
  /\ Len(delivered[ret.s]) = 3
  /\ queues[ret.s].queue = <<>>

QueryAnswers(bus, fl, sessionKey) ==
  [afterSeq \in 0..MaxNow, limit \in {<<>>, <<1>>, <<MAX_QUERY_LIMIT>>} |->
     queryContextEvents(loadBusState(bus, fl, resolveEventBusPath(sessionKey)),
                        sessionKey, Undefined, <<afterSeq>>, limit)]

\* C7: a Drain changes nothing in the store: the file, and the answer of every
\* Query and of the latest-seq reader, are the same after it as before it.
C7_DrainLeavesStore ==
  [][ret'.op = "drain"
     => (/\ file' = file
         /\ \A s \in Sessions :
              /\ QueryAnswers(busByPath', file', s) = QueryAnswers(busByPath, file, s)
              /\ getLatestSystemEventSeq(busByPath', file', s)
                   = getLatestSystemEventSeq(busByPath, file, s))]_vars

\* a Query returned an event whose entry a Drain had already handed out
C7_Witness ==
  /\ ret.op = "query"
  /\ ret.out # <<>>
  /\ queues[ret.s].queue = <<>>
  /\ toSystemEventFromBus(ret.out[1]) \in Range(delivered[ret.s])

\* C8: a poll with afterSeq = cursor returns every stored event of the session
\* whose seq is above the cursor.
C8_CursorMissesNothing ==
  [][ret'.op = "poll"
     => \A e \in Range(parseContextEvent(file[resolveEventBusPath(MainSession)])) :
          (e.sessionKey = MainSession /\ e.seq > cursor)
            => toSystemEventFromBus(e) \in Range(ret'.out)]_vars

\* C9: a Drain returns the entries enqueued for the key since the last Drain,
\* whether or not the process restarted in between.
C9_QueueSurvivesRestart ==
  [][ret'.op = "drain" => ret'.out = LastN(owed[ret'.s], MAX_EVENTS)]_vars

\* C10: a queue never holds more than MAX_EVENTS entries, and it holds the most
\* recent MAX_EVENTS of the entries enqueued since the last Drain.
C10_QueueBounded ==
  \A s \in Sessions :
    /\ Len(queues[s].queue) <= MAX_EVENTS
    /\ queues[s].queue = LastN(fresh[s], MAX_EVENTS)

\* MAX_EVENTS + 1 entries were enqueued without a Drain and the oldest of them
\* has left the queue
C10_Witness ==
  \E s \in Sessions :
    /\ ret.op = "enqueue"
    /\ ret.appended
    /\ Len(fresh[s]) = MAX_EVENTS + 1
    /\ Len(queues[s].queue) = MAX_EVENTS
    /\ queues[s].queue[1] = fresh[s][2]
    /\ queues[s].queue[MAX_EVENTS] = toSystemEventFromBus(ret.out[1])

\* C11: an event enqueued under one session key is never returned by Drain, Query
\* or peek for another session key, is never in the other session's queue and
\* never makes hasSystemEvents true for it.
C11_SessionIsolation ==
  \A s \in Sessions :
    /\ \A x \in Range(delivered[s]) \cup Range(queues[s].queue) :
         \A p \in Paths : \A e \in Range(accepted[p]) :
           toSystemEventFromBus(e) = x => e.sessionKey = s
    /\ \A afterSeq \in 0..MaxNow, limit \in {<<>>, <<MAX_QUERY_LIMIT>>} :
         /\ \A e \in Range(queryContextEvents(Loaded(s), s, Undefined, <<afterSeq>>, limit)) :
              e.sessionKey = s
         /\ \A x \in Range(peekSystemEventEntriesSince(busByPath, file, s,
                                                       <<afterSeq>>, limit).out) :
              \E e \in Range(Loaded(s).events) :
                e.sessionKey = s /\ toSystemEventFromBus(e) = x
    /\ hasSystemEvents(queues, s) => fresh[s] # <<>>
    /\ peekSystemEvents(queues, s) = [i \in 1..Len(queues[s].queue) |->
                                        LastN(fresh[s], MAX_EVENTS)[i].text]

\* a Drain of one session returned its entry while the other session's event sat
\* in the same partition and in the other queue
C11_Witness ==
  \E s1, s2 \in Sessions :
    /\ s1 # s2
    /\ resolveEventBusPath(s1) = resolveEventBusPath(s2)
    /\ ret.op = "drain"
    /\ ret.s = s2
    /\ ret.out # <<>>
    /\ hasSystemEvents(queues, s1)
    /\ \E e \in Range(Loaded(s2).events) : e.sessionKey = s1

\* C12: an Enqueue under one session key changes nothing for another session
\* key: not the latest seq it reads, and not the seq or the outcome (accepted or
\* duplicate) of the Enqueue it would make next.
C12_PartitionPerSessionKey ==
  [][ret'.op = "enqueue"
     => \A s2 \in Sessions \ {ret'.s} :
          /\ getLatestSystemEventSeq(busByPath', file', s2)
               = getLatestSystemEventSeq(busByPath, file, s2)
          /\ \A text \in SharedTexts, options \in SharedOptions :
               /\ appendContextEvent(busByPath', file',
                                     appendInput(s2, trim(text), options), 0, "ok").appended
                    = appendContextEvent(busByPath, file,
                                         appendInput(s2, trim(text), options), 0, "ok").appended
               /\ appendContextEvent(busByPath', file',
                                     appendInput(s2, trim(text), options), 0, "ok").event[1].seq
                    = appendContextEvent(busByPath, file,
                                         appendInput(s2, trim(text), options), 0, "ok").event[1].seq]_vars

\* the partition state a process builds for path p when it starts on the files
Reloaded(p) == loadBusState([q \in Paths |-> NotLoaded], file, p)

\* C13: every event Append returned with appended:true is in the backing file
\* from then on: a process that restarts at any later point finds it with the
\* same seq through Query, and treats a re-Append of its key as a duplicate.
C13_AcceptedIsDurable ==
  \A p \in Paths : \A e \in Range(accepted[p]) :
    /\ \E afterSeq \in 0..MaxNow, limit \in {<<>>, <<1>>, <<MAX_QUERY_LIMIT>>} :
         e \in Range(queryContextEvents(Reloaded(p), e.sessionKey, Undefined,
                                        <<afterSeq>>, limit))
    /\ findDuplicate(Reloaded(p), e.idempotencyKey) # <<>>

\* the partition state in memory after appendContextEvent has pushed event e and
\* trimmed the window, before it writes
Pushed(sessionKey, e) == trimInMemory(pushEvent(Loaded(sessionKey), e))

\* C14: when an accepted Append leaves the file above the size threshold with N
\* records in memory, the file and the memory then hold exactly the
\* min(N, KEEP_EVENT_LINES) highest-seq of those records, in seq order, the new
\* event among them, and the latest seq and the next seq are what they were
\* before the compaction.
C14_CompactionKeepsTail ==
  [][(/\ ret'.op = "enqueue"
      /\ ret'.appended
      /\ SumBytes(Append(file[resolveEventBusPath(ret'.s)], stringify(ret'.out[1])))
           > MAX_EVENT_FILE_BYTES)
     => (/\ parseContextEvent(file'[resolveEventBusPath(ret'.s)])
              = busByPath'[resolveEventBusPath(ret'.s)].events
         /\ Len(file'[resolveEventBusPath(ret'.s)])
              = Min(KEEP_EVENT_LINES, Len(Pushed(ret'.s, ret'.out[1]).events))
         /\ \A i \in 1..(Len(busByPath'[resolveEventBusPath(ret'.s)].events) - 1) :
              busByPath'[resolveEventBusPath(ret'.s)].events[i].seq
                < busByPath'[resolveEventBusPath(ret'.s)].events[i + 1].seq
         /\ \A y \in Range(busByPath'[resolveEventBusPath(ret'.s)].events) :
              /\ y \in Range(Pushed(ret'.s, ret'.out[1]).events)
              /\ \A x \in Range(Pushed(ret'.s, ret'.out[1]).events) :
                   x \in Range(busByPath'[resolveEventBusPath(ret'.s)].events) \/ x.seq < y.seq
         /\ ret'.out[1] \in Range(busByPath'[resolveEventBusPath(ret'.s)].events)
         /\ getContextEventLatestSeq(busByPath'[resolveEventBusPath(ret'.s)])
              = getContextEventLatestSeq(Pushed(ret'.s, ret'.out[1]))
         /\ busByPath'[resolveEventBusPath(ret'.s)].nextSeq
              = Pushed(ret'.s, ret'.out[1]).nextSeq)]_vars

\* an Append was accepted with seq 3 and compaction left only its record, in the
\* file and in memory
C14_Witness ==
  /\ ret.op = "enqueue"
  /\ ret.appended
  /\ ret.out[1].seq = 3
  /\ busByPath[resolveEventBusPath(ret.s)].events = ret.out
  /\ file[resolveEventBusPath(ret.s)] = <<stringify(ret.out[1])>>
  /\ busByPath[resolveEventBusPath(ret.s)].nextSeq = 4

\* C15: after every Drain of a session its last context key is unset:
\* isSystemEventContextChanged is true for every non-blank key, whether or not
\* the queue held entries.
C15_DrainResetsContext ==
  [][ret'.op = "drain"
     => (/\ queues'[ret'.s].lastContextKey = Undefined
         /\ \A k \in RawContextKeys \ {Undefined} :
              trim(k) # "" => isSystemEventContextChanged(queues', ret'.s, k))]_vars

\* a context key that is not given or blank
BlankContext(k) == k = Undefined \/ trim(k) = ""

\* two context keys with the same normalized form
SameContext(k1, k2) ==
  \/ BlankContext(k1) /\ BlankContext(k2)
  \/ /\ ~BlankContext(k1)
     /\ ~BlankContext(k2)
     /\ toLowerCase(trim(k1)) = toLowerCase(trim(k2))

\* C16: with nothing recorded for a session isSystemEventContextChanged is true
\* exactly for the non-blank keys; right after an Enqueue with non-empty text
\* and context key k has returned, it is false for k and for the keys with k's
\* normalized form, and true for every other key.
C16_ContextChanged ==
  /\ [](\A s \in Sessions :
          queues[s].lastContextKey = Undefined
            => \A k \in RawContextKeys :
                 isSystemEventContextChanged(queues, s, k) = ~BlankContext(k))
  /\ [][(ret'.op = "enqueue" /\ ret'.text # "" /\ ~ret'.threw)
        => \A k \in RawContextKeys :
             isSystemEventContextChanged(queues', ret'.s, k)
               = ~SameContext(ret'.contextKey, k)]_vars

\* an Enqueue with context key "CTX-A " returned: "ctx-a" is unchanged, "ctx-b"
\* is changed
C16_Witness ==
  /\ ret.op = "enqueue"
  /\ ret.text # ""
  /\ ~ret.threw
  /\ ret.contextKey = "CTX-A "
  /\ ~isSystemEventContextChanged(queues, ret.s, "ctx-a")
  /\ isSystemEventContextChanged(queues, ret.s, "ctx-b")
  /\ isSystemEventContextChanged(queues, ret.s, Undefined)

\* C17: every Enqueue with non-empty text that does not raise leaves the
\* session's last context key at the call's normalized contextKey (unset when
\* the call gives none or a blank one), also when the store reports a duplicate
\* and the queue is left as it was.
C17_EnqueueRecordsContext ==
  [][(ret'.op = "enqueue" /\ ret'.text # "" /\ ~ret'.threw)
     => (/\ queues'[ret'.s].lastContextKey
              = (IF BlankContext(ret'.contextKey) THEN Undefined
                 ELSE toLowerCase(trim(ret'.contextKey)))
         /\ ~ret'.appended => queues'[ret'.s].queue = queues[ret'.s].queue)]_vars

\* a duplicate was submitted under another context key than the stored event's:
\* nothing was queued and the last context key is the new one
C17_Witness ==
  /\ ret.op = "enqueue"
  /\ ~ret.appended
  /\ ~ret.threw
  /\ ret.out # <<>>
  /\ ret.contextKey = "ctx-b"
  /\ ret.out[1].contextKey = "ctx-a"
  /\ queues[ret.s].lastContextKey = "ctx-b"
  /\ queues[ret.s].queue = <<>>

\* the events of the in-memory window that a Query with these arguments asks for
Matching(sessionKey, source, afterSeq) ==
  {e \in Range(Loaded(sessionKey).events) :
     /\ e.sessionKey = sessionKey
     /\ e.seq > (IF afterSeq = <<>> THEN 0 ELSE afterSeq[1])
     /\ source # Undefined => toLowerCase(e.source) = toLowerCase(trim(source))}

\* the number of events a Query with this limit argument returns at most
EffectiveLimit(limit) ==
  IF limit = <<>> THEN DEFAULT_QUERY_LIMIT
  ELSE IF limit[1] > MAX_QUERY_LIMIT THEN MAX_QUERY_LIMIT
  ELSE IF limit[1] < 1 THEN 1
  ELSE limit[1]

\* res is what C18 asks of a Query with these arguments: the matching events of
\* the window when at most `limit` match, else the `limit` highest-seq ones, in
\* ascending seq order
ExpectedOf(s, source, afterSeq, limit, res) ==
  /\ Range(res) \subseteq Matching(s, source, afterSeq)
  /\ Len(res) = Min(Cardinality(Matching(s, source, afterSeq)), EffectiveLimit(limit))
  /\ \A i \in 1..(Len(res) - 1) : res[i].seq < res[i + 1].seq
  /\ \A y \in Range(res) : \A x \in Matching(s, source, afterSeq) :
       x \in Range(res) \/ x.seq < y.seq

SameAppend(a, b) == a.appended = b.appended /\ a.event = b.event /\ a.file = b.file

\* C19: a Query or a latest-seq read changes neither the file nor any queue, and
\* leaves a loaded partition (event list, dedup index, next seq) as it was; the
\* same Query made again returns the same result, and an Append made after the
\* read gets the seq and the outcome it would have got before it.
C19_ReadsAreReadOnly ==
  [][ret'.op \in {"query", "latest"}
     => (/\ file' = file
         /\ queues' = queues
         /\ \A p \in Paths :
              /\ busByPath[p].loaded => busByPath'[p] = busByPath[p]
              /\ loadBusState(busByPath', file', p) = loadBusState(busByPath, file, p)
         /\ ret'.op = "query"
              => queryContextEvents(loadBusState(busByPath', file', resolveEventBusPath(ret'.s)),
                                    ret'.s, ret'.source, ret'.afterSeq, ret'.limit) = ret'.out
         /\ ret'.op = "latest"
              => getLatestSystemEventSeq(busByPath', file', ret'.s) = ret'.seq
         /\ \A text \in RawTexts \ {" "}, options \in KeyOptions :
              SameAppend(appendContextEvent(busByPath', file',
                                            appendInput(ret'.s, trim(text), options), now, "ok"),
                         appendContextEvent(busByPath, file,
                                            appendInput(ret'.s, trim(text), options), now, "ok")))]_vars

\* a Query returned an event from a loaded partition whose memory holds an event
\* the file lacks
C19_Witness ==
  /\ ret.op = "query"
  /\ ret.out # <<>>
  /\ busByPath[resolveEventBusPath(ret.s)].loaded
  /\ busByPath[resolveEventBusPath(ret.s)].events
       # parseContextEvent(file[resolveEventBusPath(ret.s)])

\* the largest seq among the events accepted in partition p, 0 when there is none
MaxAcceptedSeq(p) ==
  IF accepted[p] = <<>> THEN 0
  ELSE CHOOSE n \in {accepted[p][i].seq : i \in 1..Len(accepted[p])} :
         \A i \in 1..Len(accepted[p]) : accepted[p][i].seq <= n

\* C20: the latest seq of a session's partition is the highest seq assigned in
\* the partition so far, 0 when none was, and one less than the next seq, also
\* after the in-memory trim and after compaction.
C20_LatestSeq ==
  \A s \in Sessions :
    /\ getLatestSystemEventSeq(busByPath, file, s) = MaxAcceptedSeq(resolveEventBusPath(s))
    /\ getLatestSystemEventSeq(busByPath, file, s) = Loaded(s).nextSeq - 1

\* the latest-seq reader returned 3 after three accepted events of which
\* compaction had left one
C20_Witness ==
  /\ ret.op = "latest"
  /\ ret.seq = 3
  /\ Len(accepted[resolveEventBusPath(ret.s)]) = 3
  /\ Len(busByPath[resolveEventBusPath(ret.s)].events) = 1
  /\ Len(file[resolveEventBusPath(ret.s)]) = 1

\* a session key that is missing or blank after trimming
BlankSessionKey(sessionKey) == sessionKey = Undefined \/ trim(sessionKey) = ""

\* C21: an Enqueue whose sessionKey is missing or blank after trimming raises
\* and changes nothing: the files, the partitions in memory (so no seq is
\* consumed), every session's queue and last context key, and the clock are
\* what they were.
C21_BlankSessionKeyRaises ==
  [][(ret'.op = "enqueue" /\ BlankSessionKey(ret'.sessionKey))
     => (/\ ret'.threw
         /\ ~ret'.appended
         /\ file' = file
         /\ busByPath' = busByPath
         /\ queues' = queues
         /\ now' = now
         /\ \A s \in Sessions :
              getLatestSystemEventSeq(busByPath', file', s)
                = getLatestSystemEventSeq(busByPath, file, s))]_vars

\* an Enqueue with the session key " " raised while the main session had an
\* entry queued and a context key recorded
C21_Witness ==
  /\ ret.op = "enqueue"
  /\ ret.sessionKey = " "
  /\ ret.threw
  /\ hasSystemEvents(queues, MainSession)
  /\ queues[MainSession].lastContextKey = "ctx-a"
  /\ file[resolveEventBusPath(MainSession)] # <<>>

\* C22: an Enqueue whose text is empty after trimming raises nothing, appends
\* nothing to the store and consumes no seq, and leaves the session's queue
\* contents, hasSystemEvents, last context key, every
\* isSystemEventContextChanged result and what a Drain would return as they
\* were; no other session's entry changes.
C22_BlankTextIsNoOp ==
  [][(ret'.op = "enqueue" /\ ~BlankSessionKey(ret'.sessionKey) /\ ret'.text = "")
     => (/\ ~ret'.threw
         /\ ~ret'.appended
         /\ ret'.out = <<>>
         /\ file' = file
         /\ busByPath' = busByPath
         /\ now' = now
         /\ queues'[ret'.s].queue = queues[ret'.s].queue
         /\ hasSystemEvents(queues', ret'.s) = hasSystemEvents(queues, ret'.s)
         /\ queues'[ret'.s].lastContextKey = queues[ret'.s].lastContextKey
         /\ \A k \in RawContextKeys :
              isSystemEventContextChanged(queues', ret'.s, k)
                = isSystemEventContextChanged(queues, ret'.s, k)
         /\ drainSystemEventEntries(queues', busByPath', file', ret'.s).out
              = drainSystemEventEntries(queues, busByPath, file, ret'.s).out
         /\ \A s \in Sessions \ {ret'.s} : queues'[s] = queues[s])]_vars

\* an Enqueue with a blank text and context key "ctx-b" returned while the
\* session had an entry queued under the last context key "ctx-a"
C22_Witness ==
  /\ ret.op = "enqueue"
  /\ ret.text = ""
  /\ ~ret.threw
  /\ ret.contextKey = "ctx-b"
  /\ hasSystemEvents(queues, ret.s)
  /\ queues[ret.s].lastContextKey = "ctx-a"
  /\ isSystemEventContextChanged(queues, ret.s, "ctx-b")

\* the Enqueue just made reached a file system call that failed: its key was new
\* to the partition and mkdirSync or appendFileSync failed, or the record was
\* written, left the file above the threshold and the rewrite failed
StorageFailed ==
  /\ ret'.op = "enqueue"
  /\ ~BlankSessionKey(ret'.sessionKey)
  /\ ret'.text # ""
  /\ ret'.idempotencyKey \notin DOMAIN Loaded(ret'.s).byKey
  /\ \/ ret'.io \in {"mkdir_fail", "append_fail"}
     \/ /\ ret'.io \in {"tmpwrite_fail", "rename_fail"}
        /\ SumBytes(file[resolveEventBusPath(ret'.s)]) + TextBytes(ret'.text)
             > MAX_EVENT_FILE_BYTES

\* C23: an Enqueue raises exactly when a directory creation, file append or
\* compaction rewrite of its Append failed; the call that raises made one
\* attempt (one clock reading, at most the one record added to the file), and
\* leaves the session's queue and last context key as they were.
C23_StorageFailurePropagates ==
  [][(ret'.op = "enqueue" /\ ~BlankSessionKey(ret'.sessionKey))
     => (/\ ret'.threw = StorageFailed
         /\ ret'.threw
              => (/\ ~ret'.appended
                  /\ now' = now + 1
                  /\ queues'[ret'.s].queue = queues[ret'.s].queue
                  /\ queues'[ret'.s].lastContextKey = queues[ret'.s].lastContextKey
                  /\ \A p \in Paths \ {resolveEventBusPath(ret'.s)} : file'[p] = file[p]
                  /\ ret'.io \in {"mkdir_fail", "append_fail"} => file' = file
                  /\ ret'.io \in {"tmpwrite_fail", "rename_fail"}
                       => (/\ Len(file'[resolveEventBusPath(ret'.s)])
                                = Len(file[resolveEventBusPath(ret'.s)]) + 1
                           /\ SubSeq(file'[resolveEventBusPath(ret'.s)], 1,
                                     Len(file[resolveEventBusPath(ret'.s)]))
                                = file[resolveEventBusPath(ret'.s)])))]_vars

\* an Enqueue under context key "ctx-b" raised on a failed rename while the
\* session had an entry queued under "ctx-a": the queue and the key are as before
C23_Witness ==
  /\ ret.op = "enqueue"
  /\ ret.threw
  /\ ret.io = "rename_fail"
  /\ ret.contextKey = "ctx-b"
  /\ Len(queues[ret.s].queue) = 1
  /\ queues[ret.s].lastContextKey = "ctx-a"

\* after the failed rewrite the partition state st and the file lines hold what
\* they held when the rewrite began: the window `before` extended by the new
\* event e (the last of st.events) and trimmed to MAX_EVENTS_IN_MEMORY, a dedup
\* index over exactly these events, and the old lines followed by e's record
KeptAsBefore(st, lines, before, oldLines, e) ==
  /\ st.events = LastN(Append(before.events, e), MAX_EVENTS_IN_MEMORY)
  /\ DOMAIN st.byKey = {x.idempotencyKey : x \in Range(st.events)}
  /\ \A x \in Range(st.events) : st.byKey[x.idempotencyKey] = x
  /\ st.nextSeq = before.nextSeq + 1
  /\ lines = Append(oldLines, stringify(e))

\* C24: when the compaction rewrite fails (writing the temporary file or renaming
\* it), the in-memory event list and dedup index hold what they held before the
\* compaction attempt, the just-appended event included, and the file holds its
\* pre-compaction records.
C24_FailedCompactionKeepsState ==
  [][(/\ ret'.op = "enqueue"
      /\ ret'.threw
      /\ ret'.io \in {"tmpwrite_fail", "rename_fail"})
     => (/\ busByPath'[resolveEventBusPath(ret'.s)].events # <<>>
         /\ LastN(busByPath'[resolveEventBusPath(ret'.s)].events, 1)[1].idempotencyKey
              = ret'.idempotencyKey
         /\ LastN(busByPath'[resolveEventBusPath(ret'.s)].events, 1)[1].text = ret'.text
         /\ LastN(busByPath'[resolveEventBusPath(ret'.s)].events, 1)[1].seq
              = Loaded(ret'.s).nextSeq
         /\ KeptAsBefore(busByPath'[resolveEventBusPath(ret'.s)],
                         file'[resolveEventBusPath(ret'.s)],
                         Loaded(ret'.s), file[resolveEventBusPath(ret'.s)],
                         LastN(busByPath'[resolveEventBusPath(ret'.s)].events, 1)[1]))]_vars

\* the write of the temporary file failed with two events in memory, one more
\* than a compaction keeps, and both are still in memory and in the file
C24_Witness ==
  /\ ret.op = "enqueue"
  /\ ret.threw
  /\ ret.io = "tmpwrite_fail"
  /\ Len(busByPath[resolveEventBusPath(ret.s)].events) = 2
  /\ Len(busByPath[resolveEventBusPath(ret.s)].events) > KEEP_EVENT_LINES
  /\ parseContextEvent(file[resolveEventBusPath(ret.s)])
       = busByPath[resolveEventBusPath(ret.s)].events

\* C25: a crash in the middle of an append costs at most the record being
\* written: the complete records of the file are parsed after it as before it,
\* and every event accepted afterwards is read back by a reload of the file.
C25_TornLineCostsOneRecord ==
  /\ [][ret'.op = "crash"
        => \A p \in Paths : parseContextEvent(file'[p]) = parseContextEvent(file[p])]_vars
  /\ [](\A p \in Paths : \A e \in Range(accepted[p]) :
          e \in Range(parseContextEvent(file[p])))

\* the well-formed event records of the file at path p
Records(p) == {file[p][i].v : i \in {j \in 1..Len(file[p]) : WellFormed(file[p][j])}}

\* one past the highest seq among the records
NextSeqOf(records) ==
  IF records = {} THEN 1
  ELSE 1 + CHOOSE n \in {e.seq : e \in records} : \A e \in records : e.seq <= n

\* C26: a load skips every line that is not a well-formed record, wherever it
\* stands, and loads all well-formed records; the next seq after the load is one
\* past the highest seq among them.
C26_LoadSkipsMalformed ==
  \A p \in Paths :
    /\ Range(Reloaded(p).events) = Records(p)
    /\ Reloaded(p).nextSeq = NextSeqOf(Records(p))

\* C26 (amended): a load skips every line that is not a well-formed record,
\* wherever it stands, and keeps, in seq order, the MAX_EVENTS_IN_MEMORY
\* highest-seq of the well-formed records (all of them when there are no more);
\* the next seq after the load is one past the highest seq among the well-formed
\* records.
C26_LoadSkipsMalformedWindow ==
  \A p \in Paths :
    /\ Range(Reloaded(p).events) \subseteq Records(p)
    /\ Len(Reloaded(p).events) = Min(Cardinality(Records(p)), MAX_EVENTS_IN_MEMORY)
    /\ \A i \in 1..(Len(Reloaded(p).events) - 1) :
         Reloaded(p).events[i].seq < Reloaded(p).events[i + 1].seq
    /\ \A y \in Range(Reloaded(p).events) : \A x \in Records(p) :
         x \in Range(Reloaded(p).events) \/ x.seq < y.seq
    /\ Reloaded(p).nextSeq = NextSeqOf(Records(p))

\* a process loaded a file whose first line is a fragment followed by a record
\* and whose second line is well-formed: it holds the one event and hands out
\* the seq after it
C26_Witness ==
  \E p \in Paths :
    /\ Len(file[p]) = 2
    /\ file[p][1].kind = "glued"
    /\ WellFormed(file[p][2])
    /\ ret.op = "query"
    /\ busByPath[p].loaded
    /\ busByPath[p].events = <<file[p][2].v>>
    /\ busByPath[p].nextSeq = file[p][2].v.seq + 1
    /\ ret.out = <<file[p][2].v>>

\* C27: a loaded partition holds at most MAX_EVENTS_IN_MEMORY events in memory,
\* in seq order, and no record of the file that is missing from memory has a
\* seq above one that is there; an operation that does not compact leaves every
\* record of the file in place, adding at most its own, so the events the
\* window dropped stay on disk.
C27_MemoryWindow ==
  /\ [](\A p \in Paths :
          busByPath[p].loaded
            => (/\ Len(busByPath[p].events) <= MAX_EVENTS_IN_MEMORY
                /\ \A i \in 1..(Len(busByPath[p].events) - 1) :
                     busByPath[p].events[i].seq < busByPath[p].events[i + 1].seq
                /\ \A y \in Range(busByPath[p].events) : \A x \in Records(p) :
                     x \in Range(busByPath[p].events) \/ x.seq < y.seq))
  /\ [][\A p \in Paths :
          \/ file'[p] = file[p]
          \/ /\ ret'.op = "enqueue"
             /\ ret'.appended
             /\ file'[p] = Append(file[p], stringify(ret'.out[1]))
          \/ /\ ret'.op = "enqueue"
             /\ Len(file'[p]) = Len(file[p]) + 1
             /\ SubSeq(file'[p], 1, Len(file[p])) = file[p]
             /\ SumBytes(file'[p]) > MAX_EVENT_FILE_BYTES
          \/ /\ ret'.op = "enqueue"
             /\ ret'.appended
             /\ SumBytes(file[p]) + TextBytes(ret'.text) > MAX_EVENT_FILE_BYTES
             /\ parseContextEvent(file'[p]) = busByPath'[p].events]_vars

\* a third event was accepted without a compaction: the window holds the two
\* newest events, the file all three
C27_Witness ==
  \E p \in Paths :
    /\ ret.op = "enqueue"
    /\ ret.appended
    /\ Len(busByPath[p].events) = MAX_EVENTS_IN_MEMORY
    /\ Len(parseContextEvent(file[p])) = MAX_EVENTS_IN_MEMORY + 1
    /\ parseContextEvent(file[p])[1] \notin Range(busByPath[p].events)
    /\ SubSeq(parseContextEvent(file[p]), 2, MAX_EVENTS_IN_MEMORY + 1) = busByPath[p].events

\* C28: an idempotencyKey the caller supplies is the dedup key as supplied: an
\* Enqueue that supplies one is accepted as a new event exactly when no earlier
\* Enqueue of the session supplied the same string, whatever source, context
\* key and text the calls carry.
C28_SuppliedKeyIsDedupKey ==
  [][(/\ ret'.op = "enqueue"
      /\ ret'.text # ""
      /\ ~ret'.threw
      /\ ret'.suppliedKey # Undefined
      /\ trim(ret'.suppliedKey) # "")
     => (ret'.appended = (ret'.suppliedKey \notin supplied[ret'.s]))]_vars

\* the source a call's option stands for: trimmed, lowercased, "system" when
\* missing or blank
NormalSource(source) ==
  IF source = Undefined THEN "system"
  ELSE IF trim(source) = "" THEN "system"
  ELSE toLowerCase(trim(source))

\* the sourceId a call stands for: the explicit value, else the normalized
\* context key, else the session key
ResolvedSourceId(sourceId, contextKey, sessionKey) ==
  IF sourceId # Undefined /\ trim(sourceId) # "" THEN trim(sourceId)
  ELSE IF ~BlankContext(contextKey) THEN toLowerCase(trim(contextKey))
  ELSE sessionKey

\* the accepted events of the session that agree with the call r in source,
\* resolved sourceId and text
AgreeingEvents(r) ==
  {e \in Range(accepted[resolveEventBusPath(r.s)]) :
     /\ e.sessionKey = r.s
     /\ e.source = NormalSource(r.source)
     /\ e.sourceId = ResolvedSourceId(r.sourceId, r.contextKey, r.s)
     /\ e.text = r.text}

\* C29: an Enqueue that supplies no idempotencyKey is a duplicate exactly when an
\* accepted event of the session agrees with it in normalized source, resolved
\* sourceId and trimmed text: then it stores and queues nothing and is answered
\* with that event; otherwise it is accepted with a seq above every accepted one.
C29_DerivedKeyDedup ==
  [][(/\ ret'.op = "enqueue"
      /\ ret'.text # ""
      /\ ~ret'.threw
      /\ ret'.suppliedKey = Undefined)
     => (/\ ret'.appended = (AgreeingEvents(ret') = {})
         /\ ~ret'.appended
              => (/\ ret'.out[1] \in AgreeingEvents(ret')
                  /\ file' = file
                  /\ queues'[ret'.s].queue = queues[ret'.s].queue)
         /\ ret'.appended
              => \A e \in Range(accepted[resolveEventBusPath(ret'.s)]) :
                   e.seq < ret'.out[1].seq)]_vars

\* C30: hasSystemEvents(s) is true exactly when the queue of s is non-empty, that
\* is exactly when a Drain of s made at that moment would return an entry, and
\* the call changes nothing.
C30_HasPending ==
  /\ [](\A s \in Sessions :
          /\ hasSystemEvents(queues, s) = (queues[s].queue # <<>>)
          /\ hasSystemEvents(queues, s)
               = (drainSystemEventEntries(queues, busByPath, file, s).out # <<>>)
          /\ hasSystemEvents(queues, s) = (fresh[s] # <<>>))
  /\ [][(ret'.op = "has" /\ ~ret'.threw)
        => (/\ ret'.pending = (queues[ret'.s].queue # <<>>)
            /\ ret'.pending = (drainSystemEventEntries(queues', busByPath', file', ret'.s).out
                                 # <<>>)
            /\ queues' = queues
            /\ busByPath' = busByPath
            /\ file' = file
            /\ now' = now)]_vars

\* hasSystemEvents answered false for a session whose Map entry exists, with a
\* last context key and an empty queue, after a Drain had delivered its entry
C30_Witness ==
  /\ ret.op = "has"
  /\ ~ret.threw
  /\ ~ret.pending
  /\ queues[ret.s].present
  /\ queues[ret.s].lastContextKey = "ctx-a"
  /\ delivered[ret.s] # <<>>

\* the step left the file at p with its old lines and one complete record behind
\* them: what appendFileSync made of it, before any rewrite
PreCompaction(p) ==
  /\ Len(file'[p]) = Len(file[p]) + 1
  /\ SubSeq(file'[p], 1, Len(file[p])) = file[p]
  /\ WellFormed(file'[p][Len(file'[p])])
  /\ file'[p][Len(file'[p])].v.text = ret'.text

\* the step left the file at p with the retained tail: at most KEEP_EVENT_LINES
\* complete records, the newest records of the old file followed by the new one
RetainedTail(p) ==
  /\ Len(file'[p]) \in 1..KEEP_EVENT_LINES
  /\ \A i \in 1..Len(file'[p]) : WellFormed(file'[p][i])
  /\ file'[p][Len(file'[p])].v.text = ret'.text
  /\ SubSeq(parseContextEvent(file'[p]), 1, Len(file'[p]) - 1)
       = LastN(parseContextEvent(file[p]), Len(file'[p]) - 1)

\* every step leaves each backing file as it was, or with the appended record
\* behind its old lines, or with the complete retained tail; where a crash cut
\* a compaction short the file is one of the latter two
FileNeverMixed ==
  \A p \in Paths :
    /\ file'[p] = file[p] \/ PreCompaction(p) \/ RetainedTail(p)
    /\ (ret'.op = "crash" /\ p = resolveEventBusPath(ret'.s))
         => IF ret'.io = "after_rename" THEN RetainedTail(p) ELSE PreCompaction(p)

\* C31: through a compaction, a crash inside it included, the backing file holds
\* the complete pre-compaction records or the complete retained tail, never a
\* mix; and an Enqueue that returns or raises leaves no temporary file behind.
C31_CompactionAtomic ==
  [][/\ FileNeverMixed
     /\ ret'.op = "enqueue" => \A p \in Paths : file'[TmpPath(p)] = file[TmpPath(p)]]_vars

\* C31 (amended): through a compaction, a crash inside it included, the backing
\* file holds the complete pre-compaction records or the complete retained tail,
\* never a mix; an Enqueue that returns or raises leaves no temporary file
\* behind unless the rewrite failed and the removal of the temporary file failed
\* as well, and then it leaves that one file.
C31_CompactionAtomicBestEffort ==
  [][/\ FileNeverMixed
     /\ ret'.op = "enqueue"
          => \A p \in Paths :
               \/ file'[TmpPath(p)] = file[TmpPath(p)]
               \/ /\ ret'.io \in {"tmpwrite_rm_fail", "rename_rm_fail"}
                  /\ ret'.threw
                  /\ p = resolveEventBusPath(ret'.s)
                  /\ Len(file'[TmpPath(p)]) = Len(file[TmpPath(p)]) + 1
                  /\ SubSeq(file'[TmpPath(p)], 1, Len(file[TmpPath(p)])) = file[TmpPath(p)]]_vars

\* the process died between writeFileSync and renameSync with two events in
\* memory: the file holds both records, above the threshold, and the complete
\* temporary file is left
C31_Witness ==
  \E p \in Paths :
    /\ ret.op = "crash"
    /\ ret.io = "before_rename"
    /\ Len(file[p]) = 2
    /\ \A i \in 1..2 : WellFormed(file[p][i])
    /\ SumBytes(file[p]) > MAX_EVENT_FILE_BYTES
    /\ Len(file[TmpPath(p)]) = 1
    /\ file[TmpPath(p)][1].complete
    /\ Len(file[TmpPath(p)][1].lines) = KEEP_EVENT_LINES

\* C32: when the directory creation or the append of an Enqueue's Append fails,
\* the partition's in-memory event list, dedup index and next seq are what they
\* were before the call, so the identical Enqueue made again with a working
\* file system counts as new: appended, written to the file and queued.
C32_FailedAppendLeavesMemory ==
  [][/\ (/\ ret'.op = "enqueue"
         /\ ret'.threw
         /\ ret'.io \in {"mkdir_fail", "append_fail"})
        => (/\ busByPath'[resolveEventBusPath(ret'.s)].events = Loaded(ret'.s).events
            /\ busByPath'[resolveEventBusPath(ret'.s)].byKey = Loaded(ret'.s).byKey
            /\ busByPath'[resolveEventBusPath(ret'.s)].nextSeq = Loaded(ret'.s).nextSeq)
     /\ (/\ ret.op = "enqueue"
         /\ ret.threw
         /\ ret.io \in {"mkdir_fail", "append_fail"}
         /\ ret'.op = "enqueue"
         /\ ret'.io = "ok"
         /\ ret'.s = ret.s
         /\ ret'.text = ret.text
         /\ ret'.idempotencyKey = ret.idempotencyKey)
        => (/\ ret'.appended
            /\ Len(file'[resolveEventBusPath(ret'.s)]) > 0
            /\ file'[resolveEventBusPath(ret'.s)] # file[resolveEventBusPath(ret'.s)]
            /\ \E i \in 1..Len(queues'[ret'.s].queue) :
                  queues'[ret'.s].queue[i].text = ret'.text)]_vars

\* C33: the store and the delivery queue stay in step: an Enqueue that wrote a
\* record to the session's partition file, one that raises on a failed
\* compaction included, has pushed that event onto the session's FIFO as its
\* newest entry.
C33_StoreAndQueueInStep ==
  [][(/\ ret'.op = "enqueue"
      /\ file'[resolveEventBusPath(ret'.s)] # file[resolveEventBusPath(ret'.s)])
     => (/\ queues'[ret'.s].queue # <<>>
         /\ queues'[ret'.s].queue[Len(queues'[ret'.s].queue)].seq = Loaded(ret'.s).nextSeq
         /\ queues'[ret'.s].queue[Len(queues'[ret'.s].queue)].text = ret'.text)]_vars

\* the partition state of the process that made the step to ret'
WriterState(p) ==
  IF ret'.op = "peer_enqueue" THEN peer.busByPath[p] ELSE busByPath[p]

\* the record the step appended to the file at p repeats the seq or the
\* idempotencyKey of a record a load of the file would have given
WroteClash(p) ==
  /\ file'[p] # file[p]
  /\ \E i \in 1..Len(loadBusStateNoCache(busByPath, file, p).events) :
        \/ loadBusStateNoCache(busByPath, file, p).events[i].seq
             = file'[p][Len(file'[p])].v.seq
        \/ loadBusStateNoCache(busByPath, file, p).events[i].idempotencyKey
             = file'[p][Len(file'[p])].v.idempotencyKey

\* C34: with two processes that each hold their own partition state and append
\* to the same file, a record that repeats the seq or the idempotencyKey of a
\* record in the file is written only by a process whose cached partition
\* state is no longer what a load of the file gives, the other process having
\* written since; such a write is reachable (C34_Witness).
C34_StaleWriterClashes ==
  [][\A p \in Paths :
       (ret'.op \in {"enqueue", "peer_enqueue"} /\ ret'.appended)
         => (WroteClash(p)
               => (/\ p = resolveEventBusPath(ret'.s)
                    /\ WriterState(p).loaded
                    /\ WriterState(p).events
                         # loadBusStateNoCache(busByPath, file, p).events))]_vars

\* the second process wrote a record with the seq and the idempotencyKey of a
\* record the first process had written to the same file
C34_Witness ==
  \E p \in Paths : \E i, j \in 1..Len(file[p]) :
    /\ i < j
    /\ ret.op = "peer_enqueue"
    /\ WellFormed(file[p][i])
    /\ WellFormed(file[p][j])
    /\ file[p][i].v.seq = file[p][j].v.seq
    /\ file[p][i].v.idempotencyKey = file[p][j].v.idempotencyKey
    /\ peer.busByPath[p].events # busByPath[p].events

\* the Enqueue to ret' returned with a new event whose record took the file of
\* the session's partition above the byte threshold
ReturnedAboveThreshold ==
  /\ ret'.op = "enqueue"
  /\ ret'.appended
  /\ ~ret'.threw
  /\ SumBytes(file[resolveEventBusPath(ret'.s)]) + TextBytes(ret'.text) > MAX_EVENT_FILE_BYTES

\* the file at p holds the newest events of the partition's in-memory list, at
\* most KEEP_EVENT_LINES of them, the event just appended being the last
HoldsRetainedTail(p) ==
  /\ Len(file'[p]) \in 1..KEEP_EVENT_LINES
  /\ file'[p] = [i \in 1..Len(file'[p]) |-> stringify(busByPath'[p].events[i])]
  /\ busByPath'[p].events = LastN(Append(Loaded(ret'.s).events, ret'.out[1]), Len(file'[p]))

\* C35: an Append that leaves the backing file above the byte threshold compacts
\* it within the same call: when the Append returns, the file holds at most
\* KEEP_EVENT_LINES records and is no larger than the threshold.
C35_DiskBounded ==
  [][ReturnedAboveThreshold
       => (/\ HoldsRetainedTail(resolveEventBusPath(ret'.s))
           /\ SumBytes(file'[resolveEventBusPath(ret'.s)]) <= MAX_EVENT_FILE_BYTES)]_vars

\* C35 (amended): an Append that leaves the backing file above the byte
\* threshold compacts it within the same call unless the size of the file
\* cannot be read: when the Append returns, the file holds the newest records,
\* at most KEEP_EVENT_LINES of them; it is no larger than the threshold when
\* these records together are.
C35_DiskBoundedInRecords ==
  [][ReturnedAboveThreshold
       => IF ret'.io = "stat_fail"
          THEN PreCompaction(resolveEventBusPath(ret'.s))
          ELSE HoldsRetainedTail(resolveEventBusPath(ret'.s))]_vars

\* an Enqueue returned after a compaction that dropped a record, and the one
\* record the file holds is larger than the threshold
C35_Witness ==
  \E p \in Paths :
    /\ ret.op = "enqueue"
    /\ ret.io = "ok"
    /\ ret.appended
    /\ Len(file[p]) = KEEP_EVENT_LINES
    /\ file[p][1].v.seq > 1
    /\ file[p][1].v = ret.out[1]
    /\ SumBytes(file[p]) > MAX_EVENT_FILE_BYTES

\* C36: while no file operation fails, the in-memory event list of a loaded
\* partition is, in seq order, a suffix of the well-formed records of the backing
\* file; right after a compaction it is the file's records, all of them.
C36_MemoryIsFileSuffix ==
  [][\A p \in Paths :
       busByPath'[p].loaded
         => (/\ busByPath'[p].events
                  = LastN(SortBySeq(parseContextEvent(file'[p])), Len(busByPath'[p].events))
             /\ (ReturnedAboveThreshold /\ p = resolveEventBusPath(ret'.s))
                  => (/\ \A i \in 1..Len(file'[p]) : WellFormed(file'[p][i])
                      /\ busByPath'[p].events = parseContextEvent(file'[p])))]_vars

\* after three accepted events without a compaction the list holds the two
\* newest of the file's three records
C36_Witness ==
  \E p \in Paths :
    /\ busByPath[p].loaded
    /\ ret.op = "enqueue"
    /\ Len(parseContextEvent(file[p])) = MAX_EVENTS_IN_MEMORY + 1
    /\ busByPath[p].events = SubSeq(parseContextEvent(file[p]), 2, MAX_EVENTS_IN_MEMORY + 1)

\* C37: the entries of a session's FIFO have strictly increasing seq, and each is
\* a copy (same seq, text and idempotencyKey) of an event the store accepted
\* under that session key.
C37_QueueCopiesStore ==
  \A s \in Sessions :
    /\ \A i \in 1..(Len(queues[s].queue) - 1) :
         queues[s].queue[i].seq < queues[s].queue[i + 1].seq
    /\ \A i \in 1..Len(queues[s].queue) :
         \E e \in Range(accepted[resolveEventBusPath(s)]) :
           /\ e.sessionKey = s
           /\ e.seq = queues[s].queue[i].seq
           /\ e.text = queues[s].queue[i].text
           /\ e.idempotencyKey = queues[s].queue[i].idempotencyKey

\* two sessions that share a partition file have entries queued, and the queue
\* of one of them holds two entries whose seq are not consecutive
C37_Witness ==
  \E s, t \in Sessions :
    /\ s # t
    /\ resolveEventBusPath(s) = resolveEventBusPath(t)
    /\ Len(queues[s].queue) = 2
    /\ queues[s].queue[2].seq > queues[s].queue[1].seq + 1
    /\ Len(queues[t].queue) = 1
    /\ queues[t].queue[1].seq = queues[s].queue[1].seq + 1

\* the texts of the entries queued for session s, oldest first
QueuedTexts(q, s) == [i \in 1..Len(q[s].queue) |-> q[s].queue[i].text]

\* C38: peekSystemEvents(s) returns the texts of the entries queued for s in FIFO
\* order and changes neither the queue nor the last context key; a Drain(s) right
\* after a peek returns the entries the peek showed, and a peek right after a
\* Drain(s) returns the empty sequence.
C38_PeekIsReadOnly ==
  [][/\ (ret'.op = "peek" /\ ~ret'.threw)
        => (/\ ret'.out = QueuedTexts(queues, ret'.s)
            /\ queues' = queues
            /\ busByPath' = busByPath
            /\ file' = file)
     /\ (ret.op = "peek" /\ ~ret.threw /\ ret'.op = "drain" /\ ret'.s = ret.s)
        => (/\ ret'.out = queues[ret.s].queue
            /\ [i \in 1..Len(ret'.out) |-> ret'.out[i].text] = ret.out)
     /\ (ret.op = "drain" /\ ret'.op = "peek" /\ ret'.s = ret.s)
        => ret'.out = <<>>]_vars

\* a peek returned the two texts queued for the session, in the order they were
\* enqueued, and the queue and its context key are in place
C38_Witness ==
  /\ ret.op = "peek"
  /\ ret.sessionKey = "agent:main:main "
  /\ ret.out = <<"a", "bbbbb">>
  /\ QueuedTexts(queues, MainSession) = ret.out
  /\ queues[MainSession].lastContextKey # Undefined

\* C39: the dedup index of a loaded partition holds exactly the idempotency keys
\* of the events in the in-memory list, and maps each key to an event of the
\* list that carries the key; after a load, a trim and a compaction as well.
C39_IndexMatchesList ==
  \A p \in Paths :
    busByPath[p].loaded
      => (/\ DOMAIN busByPath[p].byKey
               = {busByPath[p].events[i].idempotencyKey : i \in 1..Len(busByPath[p].events)}
          /\ \A k \in DOMAIN busByPath[p].byKey :
               /\ busByPath[p].byKey[k] \in Range(busByPath[p].events)
               /\ busByPath[p].byKey[k].idempotencyKey = k)

\* the trim dropped the oldest of three events: its record is in the file, its
\* key is no longer in the index, and the index holds the keys of the two kept
C39_Witness ==
  \E p \in Paths :
    /\ busByPath[p].loaded
    /\ Len(file[p]) = MAX_EVENTS_IN_MEMORY + 1
    /\ WellFormed(file[p][1])
    /\ file[p][1].v.idempotencyKey \notin DOMAIN busByPath[p].byKey
    /\ Cardinality(DOMAIN busByPath[p].byKey) = MAX_EVENTS_IN_MEMORY

====
